---- MODULE Spec2Model ----
(***************************************************************************)
(* Model of the Sevens card-game simulator (src/src/main.rs).              *)
(*                                                                         *)
(* Part 1: the per-suit Stack state machine (mod stack).                   *)
(* Part 2: the GameBoard of four stacks (mod game_board).                  *)
(* Part 3: the GameState and its classification (mod game_state,           *)
(*         assess_decision).                                               *)
(*   Option<T> is modelled as a sequence of length <= 1:                   *)
(*     None = <<>>, Some(x) = <<x>>.                                       *)
(*   Result<T, E> is modelled as a tagged record, see Ok and Err.          *)
(*   Vec<T> is modelled as a sequence.                                     *)
(***************************************************************************)
EXTENDS Integers, Sequences, FiniteSets, TLC

VARIABLES
    stack,          \* the Stack object: [suit, up_card, down_card]
    stack_before,   \* the Stack as it was when the last call was made
    op,             \* name of the last method called on the stack
    arg,            \* the card_number passed to the last play_card call
    result,         \* the value the last call returned
    played,         \* history: the ranks play_card has accepted so far
    game_board,         \* a GameBoard object: its four stacks
    game_board_before,  \* the GameBoard as it was when the last call was made
    game_state,         \* a GameState object: [game_board, players, player_turn]
    game_state_before,  \* the GameState as it was when the last call was made
    plays,              \* number of cards played onto the board so far
    number_of_players,  \* the argument GameState::new was called with
    overflow_probe,     \* the pass_turn call made with the turn pointer set to 255
    counter,            \* a MultiCounter being iterated
    yielded,            \* the items its next has returned so far, in order
    exhausted,          \* its next has returned None
    dealing,            \* distribute_cards: Some of its local players, None in a bare iteration
    shuffled,           \* distribute_cards: its argument deck
    initial,            \* main: the state the search starts from
    branches,           \* main: the pending states, last pushed last
    victories,          \* main: the seats recorded, in order
    current,            \* main: its local game_state, an Option
    pc,                 \* main: "loop" while the while loop runs, then "done" or "error"
    loop_before,        \* main: branches, victories and current before the last iteration
    classified,         \* main: the state the last iteration passed to assess_decision, an Option
    last_decision,      \* main: what assess_decision returned in the last iteration, an Option
    path,               \* history: the cards played from initial to the state in current
    paths,              \* history: the same for each state of branches
    seeds,              \* history: how often initial has been classified
    pushed,             \* history: how many states were pushed onto branches
    popped,             \* history: how many states were popped from branches
    completed,          \* history: how many Victory decisions were returned
    second              \* main run a second time from the same initial: its locals

stackVars == <<stack, stack_before, played>>

boardVars == <<game_board, game_board_before>>

gameVars == <<game_state, game_state_before>>

counterVars == <<counter, yielded, exhausted, dealing, shuffled>>

newVars == <<number_of_players, overflow_probe, counterVars>>

explorerVars == <<initial, branches, victories, current, pc, loop_before, classified, last_decision,
                  path, paths, seeds, pushed, popped, completed, second>>

vars == <<stack, stack_before, op, arg, result, played,
          game_board, game_board_before, game_state, game_state_before, plays,
          number_of_players, overflow_probe,
          counter, yielded, exhausted, dealing, shuffled,
          initial, branches, victories, current, pc, loop_before, classified, last_decision,
          path, paths, seeds, pushed, popped, completed, second>>

----------------------------------------------------------------------------
(* Value encodings *)

None == <<>>

Some(x) == <<x>>

is_some(o) == o # <<>>

unwrap(o) == o[1]

Unit == "()"

Ok(v) == [tag |-> "Ok", val |-> v]

Err(e) == [tag |-> "Err", err |-> e]

is_ok(r) == r.tag = "Ok"

is_err(r) == r.tag = "Err"

contains(vec, x) == \E i \in 1..Len(vec) : vec[i] = x

----------------------------------------------------------------------------
(* mod card_and_enums *)

SuitEnum == {"Spade", "Club", "Heart", "Diamond"}

\* the ranks in declaration order, Ace lowest
NumberEnum_iterator ==
    <<"Ace", "Two", "Three", "Four", "Five", "Six", "Seven",
      "Eight", "Nine", "Ten", "Jack", "Queen", "King">>

NumberEnum == {NumberEnum_iterator[i] : i \in 1..Len(NumberEnum_iterator)}

Card(s, n) == [suit |-> s, number |-> n]

AllCards == {Card(s, n) : s \in SuitEnum, n \in NumberEnum}

----------------------------------------------------------------------------
(* mod stack *)

Stack(s, up, down) == [suit |-> s, up_card |-> up, down_card |-> down]

Stack_new(suit) == Stack(suit, None, None)

\* variant: the Eight arm returns its own rank
playable_up_stuck(self) ==
    LET n == unwrap(self.up_card).number IN
    CASE n = "Seven" -> Ok(Some(Card(self.suit, "Eight")))
      [] n = "Eight" -> Ok(Some(Card(self.suit, "Eight")))
      [] n = "Nine"  -> Ok(Some(Card(self.suit, "Ten")))
      [] n = "Ten"   -> Ok(Some(Card(self.suit, "Jack")))
      [] n = "Jack"  -> Ok(Some(Card(self.suit, "Queen")))
      [] n = "Queen" -> Ok(Some(Card(self.suit, "King")))
      [] n = "King"  -> Ok(None)
      [] OTHER       -> Err("InvalidUpStack")

\* variant: the Seven arm skips a rank
playable_up_skip(self) ==
    LET n == unwrap(self.up_card).number IN
    CASE n = "Seven" -> Ok(Some(Card(self.suit, "Nine")))
      [] n = "Eight" -> Ok(Some(Card(self.suit, "Nine")))
      [] n = "Nine"  -> Ok(Some(Card(self.suit, "Ten")))
      [] n = "Ten"   -> Ok(Some(Card(self.suit, "Jack")))
      [] n = "Jack"  -> Ok(Some(Card(self.suit, "Queen")))
      [] n = "Queen" -> Ok(Some(Card(self.suit, "King")))
      [] n = "King"  -> Ok(None)
      [] OTHER       -> Err("InvalidUpStack")

\* the match on up_card's number: the next card of the up pile, None when
\* the pile is finished; the wildcard arm returns the error
playable_up(self) ==
    LET n == unwrap(self.up_card).number IN
    CASE n = "Seven" -> Ok(Some(Card(self.suit, "Eight")))
      [] n = "Eight" -> Ok(Some(Card(self.suit, "Nine")))
      [] n = "Nine"  -> Ok(Some(Card(self.suit, "Ten")))
      [] n = "Ten"   -> Ok(Some(Card(self.suit, "Jack")))
      [] n = "Jack"  -> Ok(Some(Card(self.suit, "Queen")))
      [] n = "Queen" -> Ok(Some(Card(self.suit, "King")))
      [] n = "King"  -> Ok(None)
      [] OTHER       -> Err("InvalidUpStack")

\* variant: the Seven arm skips the Six
playable_down_skip_six(self) ==
    LET n == unwrap(self.down_card).number IN
    CASE n = "Ace"   -> Ok(None)
      [] n = "Two"   -> Ok(Some(Card(self.suit, "Ace")))
      [] n = "Three" -> Ok(Some(Card(self.suit, "Two")))
      [] n = "Four"  -> Ok(Some(Card(self.suit, "Three")))
      [] n = "Five"  -> Ok(Some(Card(self.suit, "Four")))
      [] n = "Six"   -> Ok(Some(Card(self.suit, "Five")))
      [] n = "Seven" -> Ok(Some(Card(self.suit, "Five")))
      [] OTHER       -> Err("InvalidDownStack")

\* the match on down_card's number
playable_down(self) ==
    LET n == unwrap(self.down_card).number IN
    CASE n = "Ace"   -> Ok(None)
      [] n = "Two"   -> Ok(Some(Card(self.suit, "Ace")))
      [] n = "Three" -> Ok(Some(Card(self.suit, "Two")))
      [] n = "Four"  -> Ok(Some(Card(self.suit, "Three")))
      [] n = "Five"  -> Ok(Some(Card(self.suit, "Four")))
      [] n = "Six"   -> Ok(Some(Card(self.suit, "Five")))
      [] n = "Seven" -> Ok(Some(Card(self.suit, "Six")))
      [] OTHER       -> Err("InvalidDownStack")

\* variant: a finished stack yields an empty list instead of None
combine_playable_empty_list(up, down) ==
    CASE is_some(up) /\ is_some(down)   -> Ok(Some(<<unwrap(up), unwrap(down)>>))
      [] is_some(up) /\ ~is_some(down)  -> Ok(Some(<<unwrap(up)>>))
      [] ~is_some(up) /\ is_some(down)  -> Ok(Some(<<unwrap(down)>>))
      [] OTHER                          -> Ok(Some(<<>>))

\* the final match on (playable_up.is_some(), playable_down.is_some())
combine_playable(up, down) ==
    CASE is_some(up) /\ is_some(down)   -> Ok(Some(<<unwrap(up), unwrap(down)>>))
      [] is_some(up) /\ ~is_some(down)  -> Ok(Some(<<unwrap(up)>>))
      [] ~is_some(up) /\ is_some(down)  -> Ok(Some(<<unwrap(down)>>))
      [] OTHER                          -> Ok(None)

\* variant: the suit of the seven is hard-coded
playable_on_new_fixed_suit(self) == Ok(Some(<<Card("Spade", "Seven")>>))

\* the (false, false) arm: nothing played yet, only the seven is playable
playable_on_new(self) == Ok(Some(<<Card(self.suit, "Seven")>>))

\* variant: the down pile is matched before the up pile
playable_on_started_down_first(self) ==
    IF is_err(playable_down(self)) THEN playable_down(self)
    ELSE IF is_err(playable_up(self)) THEN playable_up(self)
    ELSE combine_playable(playable_up(self).val, playable_down(self).val)

\* the (true, true) arm: the up pile is matched first, then the down pile
playable_on_started(self) ==
    IF is_err(playable_up(self)) THEN playable_up(self)
    ELSE IF is_err(playable_down(self)) THEN playable_down(self)
    ELSE combine_playable(playable_up(self).val, playable_down(self).val)

Stack_get_playable_cards(self) ==
    CASE ~is_some(self.up_card) /\ ~is_some(self.down_card) -> playable_on_new(self)
      [] is_some(self.up_card) /\ is_some(self.down_card)   -> playable_on_started(self)
      [] OTHER -> Err("InvalidStackState")

\* variant: the seven founds the up pile only
place_card_seven_up_only(self, card_number) ==
    CASE card_number \in {"Ace", "Two", "Three", "Four", "Five", "Six"} ->
            [self EXCEPT !.down_card = Some(Card(self.suit, card_number))]
      [] OTHER ->
            [self EXCEPT !.up_card = Some(Card(self.suit, card_number))]

\* variant: the low and the high arms write the wrong pile
place_card_swapped(self, card_number) ==
    CASE card_number \in {"Ace", "Two", "Three", "Four", "Five", "Six"} ->
            [self EXCEPT !.up_card = Some(Card(self.suit, card_number))]
      [] card_number = "Seven" ->
            [self EXCEPT !.up_card = Some(Card(self.suit, card_number)),
                         !.down_card = Some(Card(self.suit, card_number))]
      [] OTHER ->
            [self EXCEPT !.down_card = Some(Card(self.suit, card_number))]

\* the match on card_number inside play_card: which pile the card goes on
place_card(self, card_number) ==
    CASE card_number \in {"Ace", "Two", "Three", "Four", "Five", "Six"} ->
            [self EXCEPT !.down_card = Some(Card(self.suit, card_number))]
      [] card_number = "Seven" ->
            [self EXCEPT !.up_card = Some(Card(self.suit, card_number)),
                         !.down_card = Some(Card(self.suit, card_number))]
      [] OTHER ->
            [self EXCEPT !.up_card = Some(Card(self.suit, card_number))]

\* variant: only the first playable card is compared
Stack_play_card_first_only(self, card_number) ==
    LET got == Stack_get_playable_cards(self) IN
    IF is_err(got) THEN [self |-> self, ret |-> got]
    ELSE IF ~is_some(got.val)
         THEN [self |-> self, ret |-> Err("CompletedStackPlayedOn")]
    ELSE IF unwrap(got.val)[1] = Card(self.suit, card_number)
         THEN [self |-> place_card(self, card_number), ret |-> Ok(Unit)]
    ELSE [self |-> self, ret |-> Err("UnplayableCardNumber")]

\* variant: the card is placed before it is checked
Stack_play_card_place_first(self, card_number) ==
    LET got == Stack_get_playable_cards(self) IN
    IF is_err(got) THEN [self |-> self, ret |-> got]
    ELSE IF ~is_some(got.val)
         THEN [self |-> self, ret |-> Err("CompletedStackPlayedOn")]
    ELSE IF contains(unwrap(got.val), Card(self.suit, card_number))
         THEN [self |-> place_card(self, card_number), ret |-> Ok(Unit)]
    ELSE [self |-> place_card(self, card_number),
          ret |-> Err("UnplayableCardNumber")]

\* play_card(&mut self, card_number): the stack after the call and the
\* value returned
Stack_play_card(self, card_number) ==
    LET got == Stack_get_playable_cards(self) IN
    IF is_err(got) THEN [self |-> self, ret |-> got]
    ELSE IF ~is_some(got.val)
         THEN [self |-> self, ret |-> Err("CompletedStackPlayedOn")]
    ELSE IF contains(unwrap(got.val), Card(self.suit, card_number))
         THEN [self |-> place_card(self, card_number), ret |-> Ok(Unit)]
    ELSE [self |-> self, ret |-> Err("UnplayableCardNumber")]

----------------------------------------------------------------------------
(* mod game_board *)

GameBoard(spade, club, heart, diamond) ==
    [spade_stack |-> spade, club_stack |-> club,
     heart_stack |-> heart, diamond_stack |-> diamond]

\* GameBoardError::StackError(e, name)
StackError(e, name) == [kind |-> "StackError", error |-> e, stack |-> name]

GameBoard_new ==
    GameBoard(Stack_new("Spade"), Stack_new("Club"),
              Stack_new("Heart"), Stack_new("Diamond"))

\* the field of the board that match card.suit / st.suit selects
stack_field(suit) ==
    CASE suit = "Spade" -> "spade_stack"
      [] suit = "Club"  -> "club_stack"
      [] suit = "Heart" -> "heart_stack"
      [] OTHER          -> "diamond_stack"

\* the name the error of a stack is tagged with
stack_name(suit) ==
    CASE suit = "Spade" -> "Spades"
      [] suit = "Club"  -> "Clubs"
      [] suit = "Heart" -> "Hearts"
      [] OTHER          -> "Diamonds"

\* variant: a finished stack offers its seven again
stack_playable_or_seven(st, name) ==
    LET got == Stack_get_playable_cards(st) IN
    IF is_err(got) THEN Err(StackError(got.err, name))
    ELSE IF is_some(got.val) THEN Ok(unwrap(got.val))
    ELSE Ok(<<Card(st.suit, "Seven")>>)

\* one of the four let-bindings of get_playable_cards: the cards of a
\* stack, vec![] for None, the tagged error otherwise
stack_playable_or_empty(st, name) ==
    LET got == Stack_get_playable_cards(st) IN
    IF is_err(got) THEN Err(StackError(got.err, name))
    ELSE IF is_some(got.val) THEN Ok(unwrap(got.val))
    ELSE Ok(<<>>)

\* variant: the diamonds are never appended to the output
GameBoard_get_playable_cards_no_diamonds(self) ==
    LET playable_spades   == stack_playable_or_empty(self.spade_stack, "Spades")
        playable_clubs    == stack_playable_or_empty(self.club_stack, "Clubs")
        playable_hearts   == stack_playable_or_empty(self.heart_stack, "Hearts")
        playable_diamonds == stack_playable_or_empty(self.diamond_stack, "Diamonds")
    IN
    IF is_err(playable_spades) THEN playable_spades
    ELSE IF is_err(playable_clubs) THEN playable_clubs
    ELSE IF is_err(playable_hearts) THEN playable_hearts
    ELSE IF is_err(playable_diamonds) THEN playable_diamonds
    ELSE LET output == playable_spades.val \o playable_clubs.val
                         \o playable_hearts.val
         IN IF Len(output) > 0 THEN Ok(Some(output)) ELSE Ok(None)

GameBoard_get_playable_cards(self) ==
    LET playable_spades   == stack_playable_or_empty(self.spade_stack, "Spades")
        playable_clubs    == stack_playable_or_empty(self.club_stack, "Clubs")
        playable_hearts   == stack_playable_or_empty(self.heart_stack, "Hearts")
        playable_diamonds == stack_playable_or_empty(self.diamond_stack, "Diamonds")
    IN
    IF is_err(playable_spades) THEN playable_spades
    ELSE IF is_err(playable_clubs) THEN playable_clubs
    ELSE IF is_err(playable_hearts) THEN playable_hearts
    ELSE IF is_err(playable_diamonds) THEN playable_diamonds
    ELSE LET output == playable_spades.val \o playable_clubs.val
                         \o playable_hearts.val \o playable_diamonds.val
         IN IF Len(output) > 0 THEN Ok(Some(output)) ELSE Ok(None)

\* variant: the stack is replaced by a fresh one when the play fails
GameBoard_play_card_reset_on_error(self, card) ==
    LET out == Stack_play_card(self[stack_field(card.suit)], card.number) IN
    IF is_ok(out.ret)
    THEN [self |-> [self EXCEPT ![stack_field(card.suit)] = out.self],
          ret  |-> out.ret]
    ELSE [self |-> [self EXCEPT ![stack_field(card.suit)] = Stack_new(card.suit)],
          ret  |-> Err(StackError(out.ret.err, stack_name(card.suit)))]

\* variant: every card is routed to the spade stack
GameBoard_play_card_one_stack(self, card) ==
    LET out == Stack_play_card(self.spade_stack, card.number) IN
    [self |-> [self EXCEPT !.spade_stack = out.self],
     ret  |-> IF is_ok(out.ret) THEN out.ret
              ELSE Err(StackError(out.ret.err, stack_name(card.suit)))]

\* play_card(&mut self, card): the board after the call and the value
\* returned
GameBoard_play_card(self, card) ==
    LET out == Stack_play_card(self[stack_field(card.suit)], card.number) IN
    [self |-> [self EXCEPT ![stack_field(card.suit)] = out.self],
     ret  |-> IF is_ok(out.ret) THEN out.ret
              ELSE Err(StackError(out.ret.err, stack_name(card.suit)))]

\* Stack::get_completed_stack (test helper)
Stack_get_completed_stack(suit) ==
    Stack(suit, Some(Card(suit, "King")), Some(Card(suit, "Ace")))

\* the for loop of GameBoard::from: each stack replaces the one of its suit
RECURSIVE put_stacks(_, _)
put_stacks(output, stacks) ==
    IF stacks = <<>> THEN output
    ELSE put_stacks([output EXCEPT ![stack_field(Head(stacks).suit)] = Head(stacks)],
                    Tail(stacks))

\* GameBoard::from (test constructor)
GameBoard_from(stacks) ==
    LET output == put_stacks(GameBoard_new, stacks) IN
    IF is_ok(GameBoard_get_playable_cards(output)) THEN Ok(output)
    ELSE GameBoard_get_playable_cards(output)

----------------------------------------------------------------------------
(* struct Player, mod game_state *)

Player(hand) == [hand |-> hand]

GameState(board, players, turn) ==
    [game_board |-> board, players |-> players, player_turn |-> turn]

\* the variants of GameStateError that carry nothing
GameStateError(kind) == [kind |-> kind]

\* GameStateError::GameBoardError(e)
GameBoardError(e) == [kind |-> "GameBoardError", error |-> e]

\* MoreThanOnePlayableCard(name) and NoPlayableCard(name)
NamedError(kind, name) == [kind |-> kind, name |-> name]

U8_MAX == 255

\* variant: the last seat is taken to be players.len()
last_seat_is_len(self) == Len(self.players) % (U8_MAX + 1)

\* players.len() as u8 - 1, in 8-bit arithmetic (the model has no state
\* without players, where this subtraction would wrap or panic)
last_seat(self) == ((Len(self.players) % (U8_MAX + 1)) - 1) % (U8_MAX + 1)

\* variant: the turn pointer is not wrapped after the last seat
GameState_pass_turn_no_wrap(self) ==
    IF self.player_turn = U8_MAX
    THEN [self |-> self, ret |-> Err(GameStateError("OverflowError"))]
    ELSE [self |-> [self EXCEPT !.player_turn = self.player_turn + 1],
          ret |-> Ok(Unit)]

\* variant: the pointer is not tested against the 8-bit maximum
GameState_pass_turn_no_overflow_test(self) ==
    IF self.player_turn < last_seat(self)
    THEN [self |-> [self EXCEPT !.player_turn = self.player_turn + 1],
          ret |-> Ok(Unit)]
    ELSE [self |-> [self EXCEPT !.player_turn = 0], ret |-> Ok(Unit)]

\* pass_turn(&mut self)
GameState_pass_turn(self) ==
    IF self.player_turn = U8_MAX
    THEN [self |-> self, ret |-> Err(GameStateError("OverflowError"))]
    ELSE IF self.player_turn < last_seat(self)
    THEN [self |-> [self EXCEPT !.player_turn = self.player_turn + 1],
          ret |-> Ok(Unit)]
    ELSE [self |-> [self EXCEPT !.player_turn = 0], ret |-> Ok(Unit)]

\* .map_err(|e| GameStateError::GameBoardError(e)), and the Err(e) arms
\* that wrap a board's error the same way
map_err_GameBoardError(r) ==
    IF is_ok(r) THEN r ELSE Err(GameBoardError(r.err))

\* output.pass_turn()?; return Ok(output): out is the outcome of the calls
\* made on output
return_output(out) ==
    IF is_err(out.ret) THEN out.ret ELSE Ok(out.self)

\* get_playable_cards(&self) of GameState
GameState_get_playable_cards(self) ==
    map_err_GameBoardError(GameBoard_get_playable_cards(self.game_board))

\* variant: the turn is not passed after the play
after_board_play_no_pass(self, bo) ==
    IF is_err(bo.ret)
    THEN [self |-> [self EXCEPT !.game_board = bo.self],
          ret |-> map_err_GameBoardError(bo.ret)]
    ELSE [self |-> [self EXCEPT !.game_board = bo.self], ret |-> Ok(Unit)]

\* what follows game_board.play_card(card), whose outcome is bo: the ? on
\* its mapped error, then pass_turn()?
after_board_play(self, bo) ==
    IF is_err(bo.ret)
    THEN [self |-> [self EXCEPT !.game_board = bo.self],
          ret |-> map_err_GameBoardError(bo.ret)]
    ELSE GameState_pass_turn([self EXCEPT !.game_board = bo.self])

\* the tail of play_only_playable_card and of play_card_and_return_new:
\* game_board.play_card(card)?, then pass_turn()?, on the state given
play_then_pass(self, card) ==
    after_board_play(self, GameBoard_play_card(self.game_board, card))

\* variant: the turn is passed before the cards are counted
play_only_match_playable_pass_first(self, playable) ==
    IF is_err(playable)
    THEN [self |-> GameState_pass_turn(self).self,
          ret |-> map_err_GameBoardError(playable)]
    ELSE IF ~is_some(playable.val)
    THEN [self |-> GameState_pass_turn(self).self,
          ret |-> Err(NamedError("NoPlayableCard", "play_only_playable_card"))]
    ELSE IF Len(unwrap(playable.val)) > 1
    THEN [self |-> GameState_pass_turn(self).self,
          ret |-> Err(NamedError("MoreThanOnePlayableCard", "play_only_playable_card"))]
    ELSE play_then_pass(self, unwrap(playable.val)[1])

\* play_only_playable_card from the match on what
\* game_board.get_playable_cards() returned, playable, to the end
play_only_match_playable(self, playable) ==
    IF is_err(playable)
    THEN [self |-> self, ret |-> map_err_GameBoardError(playable)]
    ELSE IF ~is_some(playable.val)
    THEN [self |-> self,
          ret |-> Err(NamedError("NoPlayableCard", "play_only_playable_card"))]
    ELSE IF Len(unwrap(playable.val)) > 1
    THEN [self |-> self,
          ret |-> Err(NamedError("MoreThanOnePlayableCard", "play_only_playable_card"))]
    ELSE play_then_pass(self, unwrap(playable.val)[1])

\* play_only_playable_card(&mut self)
GameState_play_only_playable_card(self) ==
    play_only_match_playable(self, GameBoard_get_playable_cards(self.game_board))

\* variant: a single legal play is accepted by the fork operation
return_new_match_playable_allow_one(self, card, get_playable) ==
    IF is_err(get_playable) THEN map_err_GameBoardError(get_playable)
    ELSE IF ~is_some(get_playable.val)
    THEN Err(NamedError("NoPlayableCard", "play_card_and_return"))
    ELSE IF Len(unwrap(get_playable.val)) = 0
    THEN Err(NamedError("NoPlayableCard", "play_card_and_return"))
    ELSE IF ~contains(unwrap(get_playable.val), card)
    THEN Err(GameStateError("UnplayableCard"))
    ELSE return_output(play_then_pass(self, card))

\* play_card_and_return_new from the match on what
\* game_board.get_playable_cards() returned, get_playable, to the end
return_new_match_playable(self, card, get_playable) ==
    IF is_err(get_playable) THEN map_err_GameBoardError(get_playable)
    ELSE IF ~is_some(get_playable.val)
    THEN Err(NamedError("NoPlayableCard", "play_card_and_return"))
    ELSE IF Len(unwrap(get_playable.val)) = 0
    THEN Err(NamedError("NoPlayableCard", "play_card_and_return"))
    ELSE IF Len(unwrap(get_playable.val)) = 1
    THEN Err(GameStateError("OnlyOnePlayableCard"))
    ELSE IF ~contains(unwrap(get_playable.val), card)
    THEN Err(GameStateError("UnplayableCard"))
    ELSE return_output(play_then_pass(self, card))

\* play_card_and_return_new(&self, card): the value returned; the state it
\* is called on is borrowed immutably
GameState_play_card_and_return_new(self, card) ==
    return_new_match_playable(self, card,
                              GameBoard_get_playable_cards(self.game_board))

----------------------------------------------------------------------------
(* mod multi_counter, generate_new_shuffle, distribute_cards, GameState::new *)

\* a panic of the running thread: no value is returned
Panic(msg) == [tag |-> "Panic", msg |-> msg]

is_panic(r) == r.tag = "Panic"

\* MultiCounter::new
MultiCounter_new(counter_maxes, require_simultaneous_completion) ==
    [counter_maxes |-> counter_maxes,
     require_simultaneous_completion |-> require_simultaneous_completion,
     counter_values |-> [i \in 1..Len(counter_maxes) |-> 0],
     counter_complete |-> [i \in 1..Len(counter_maxes) |-> FALSE]]

\* MultiCounter::get_values
MultiCounter_get_values(self) == self.counter_values

\* variant: the values are not looked at in either mode
MultiCounter_check_complete_flags_only(self) ==
    \A i \in 1..Len(self.counter_complete) : self.counter_complete[i]

\* MultiCounter::check_complete
MultiCounter_check_complete(self) ==
    IF self.require_simultaneous_completion
    THEN /\ \A i \in 1..Len(self.counter_values) : self.counter_values[i] = 0
         /\ \A i \in 1..Len(self.counter_complete) : self.counter_complete[i]
    ELSE \A i \in 1..Len(self.counter_complete) : self.counter_complete[i]

\* value == self.counter_maxes[index] - 1 in usize arithmetic: with a
\* maximum of 0 the subtraction wraps to usize::MAX, which no value reached
\* here equals (a build with overflow checks panics instead, see
\* MultiCounter_increment)
at_counter_max(self, i) ==
    self.counter_maxes[i] # 0 /\ self.counter_values[i] = self.counter_maxes[i] - 1

\* MultiCounter::increment; overflow_checks tells whether the build panics
\* on the subtraction 0 - 1. The counter after the call, and whether the
\* call panicked
MultiCounter_increment(self, overflow_checks) ==
    IF overflow_checks /\ \E i \in 1..Len(self.counter_maxes) : self.counter_maxes[i] = 0
    THEN [self |-> self, panicked |-> TRUE]
    ELSE [self |-> [self EXCEPT
                      !.counter_values =
                          [i \in 1..Len(self.counter_values) |->
                              IF at_counter_max(self, i) THEN 0
                              ELSE self.counter_values[i] + 1],
                      !.counter_complete =
                          [i \in 1..Len(self.counter_complete) |->
                              self.counter_complete[i] \/ at_counter_max(self, i)]],
          panicked |-> FALSE]

\* the false arm of next: the values read before the increment inc
next_item(values, inc) ==
    [self |-> inc.self, ret |-> Some(values), panicked |-> inc.panicked]

\* Iterator::next of MultiCounter: the counter after the call, the item,
\* and whether the call panicked
MultiCounter_next(self, overflow_checks) ==
    IF MultiCounter_check_complete(self)
    THEN [self |-> self, ret |-> None, panicked |-> FALSE]
    ELSE next_item(MultiCounter_get_values(self),
                   MultiCounter_increment(self, overflow_checks))

\* the deck generate_new_shuffle builds before it shuffles: the suits in
\* iterator order, each with its thirteen ranks
new_deck ==
    [i \in 1..52 |-> Card(<<"Spade", "Club", "Heart", "Diamond">>[((i - 1) \div 13) + 1],
                          NumberEnum_iterator[((i - 1) % 13) + 1])]

\* the outcomes of deck.shuffle taken here: the deck as built, and reversed
Decks == {new_deck, [i \in 1..52 |-> new_deck[53 - i]]}

\* variant: the card is taken at the position of the first component
push_to_hand_same_index(players, deck, v) ==
    IF v[1] + 1 > Len(players) \/ v[1] + 1 > Len(deck)
    THEN Panic("index out of bounds")
    ELSE Ok([players EXCEPT ![v[1] + 1].hand = Append(@, deck[v[1] + 1])])

\* players[v[0]].hand.push(deck[v[1]].clone()) for the item v
push_to_hand(players, deck, v) ==
    IF v[1] + 1 > Len(players) \/ v[2] + 1 > Len(deck)
    THEN Panic("index out of bounds")
    ELSE Ok([players EXCEPT ![v[1] + 1].hand = Append(@, deck[v[2] + 1])])

\* the for loop of distribute_cards over the counter, from the outcome
\* step of its call of next
RECURSIVE deal_loop(_, _, _, _)
deal_loop(step, players, deck, overflow_checks) ==
    IF step.panicked THEN Panic("attempt to subtract with overflow")
    ELSE IF ~is_some(step.ret) THEN Ok(players)
    ELSE IF is_panic(push_to_hand(players, deck, unwrap(step.ret)))
    THEN push_to_hand(players, deck, unwrap(step.ret))
    ELSE deal_loop(MultiCounter_next(step.self, overflow_checks),
                   push_to_hand(players, deck, unwrap(step.ret)).val,
                   deck, overflow_checks)

\* distribute_cards: Ok of the players, or the panic that ends the call
distribute_cards(number_of_players_arg, deck, overflow_checks) ==
    deal_loop(MultiCounter_next(MultiCounter_new(<<number_of_players_arg, 52>>, FALSE),
                                overflow_checks),
              [i \in 1..number_of_players_arg |-> Player(<<>>)],
              deck, overflow_checks)

\* Ok(GameState { .. }) around the players dealt, or their panic
new_from_players(dealt) ==
    IF is_panic(dealt) THEN dealt
    ELSE Ok(GameState(GameBoard_new, dealt.val, 0))

\* the player limit of GameState::new
PLAYER_LIMIT == 26

\* GameState::new(number_of_players), with the deck the shuffle gave
GameState_new(number_of_players_arg, deck, overflow_checks) ==
    IF number_of_players_arg > PLAYER_LIMIT THEN Err(GameStateError("TooManyPlayers"))
    ELSE new_from_players(distribute_cards(number_of_players_arg, deck, overflow_checks))

----------------------------------------------------------------------------
(* enum Decision, assess_decision *)

Victory(player) == [kind |-> "Victory", player |-> player]

NoPlayableCards(state) == [kind |-> "NoPlayableCards", state |-> state]

OnePlayableCard(state) == [kind |-> "OnePlayableCard", state |-> state]

MultiplePlayableCards(states) == [kind |-> "MultiplePlayableCards", states |-> states]

\* the hand of the seat to move is empty
hand_is_empty(self) == Len(self.players[self.player_turn + 1].hand) = 0

\* collect() into Result<Vec<GameState>, _>: the values in order, or the
\* first error
collect(outs) ==
    IF \E i \in DOMAIN outs : is_err(outs[i])
    THEN outs[CHOOSE i \in DOMAIN outs :
                 /\ is_err(outs[i])
                 /\ \A j \in DOMAIN outs : is_err(outs[j]) => i <= j]
    ELSE Ok([i \in DOMAIN outs |-> outs[i].val])

\* variant: the last legal card is not forked
forks_drop_last(self, cards) ==
    collect([i \in 1..(Len(cards) - 1) |->
                GameState_play_card_and_return_new(self, cards[i])])

\* playable_cards.into_iter().map(play_card_and_return_new).collect()
forks(self, cards) ==
    collect([i \in 1..Len(cards) |->
                GameState_play_card_and_return_new(self, cards[i])])

\* pass_turn()?; return Ok(NoPlayableCards(game_state)): out is the
\* outcome of pass_turn
return_no_playable(out) ==
    IF is_err(out.ret) THEN out.ret ELSE Ok(NoPlayableCards(out.self))

\* the None arm: the turn is passed and the state returned
decide_no_playable(self) == return_no_playable(GameState_pass_turn(self))

\* play_only_playable_card()?; return Ok(OnePlayableCard(game_state)):
\* out is the outcome of play_only_playable_card
return_one_playable(out) ==
    IF is_err(out.ret) THEN out.ret ELSE Ok(OnePlayableCard(out.self))

\* the len() == 1 arm
decide_one_playable(self) ==
    return_one_playable(GameState_play_only_playable_card(self))

\* the match on output of the else arm
match_output(output) ==
    IF is_err(output) THEN output ELSE Ok(MultiplePlayableCards(output.val))

\* the else arm
decide_multiple(self, cards) == match_output(forks(self, cards))

\* variant: a seat that holds none of the legal cards passes the turn
match_playable_held_only(game_state_arg, playable) ==
    IF is_err(playable) THEN playable
    ELSE IF ~is_some(playable.val) THEN decide_no_playable(game_state_arg)
    ELSE IF \A i \in 1..Len(unwrap(playable.val)) :
               ~contains(game_state_arg.players[game_state_arg.player_turn + 1].hand,
                         unwrap(playable.val)[i])
    THEN decide_no_playable(game_state_arg)
    ELSE IF Len(unwrap(playable.val)) = 1 THEN decide_one_playable(game_state_arg)
    ELSE decide_multiple(game_state_arg, unwrap(playable.val))

\* assess_decision from the match on what get_playable_cards() returned,
\* playable, to the end
match_playable(game_state_arg, playable) ==
    IF is_err(playable) THEN playable
    ELSE IF ~is_some(playable.val) THEN decide_no_playable(game_state_arg)
    ELSE IF Len(unwrap(playable.val)) = 1 THEN decide_one_playable(game_state_arg)
    ELSE decide_multiple(game_state_arg, unwrap(playable.val))

\* variant: the hand of the seat to move is not looked at
assess_decision_no_victory(game_state_arg) ==
    match_playable(game_state_arg, GameState_get_playable_cards(game_state_arg))

\* assess_decision(game_state)
assess_decision(game_state_arg) ==
    IF hand_is_empty(game_state_arg)
    THEN Ok(Victory(game_state_arg.player_turn))
    ELSE match_playable(game_state_arg, GameState_get_playable_cards(game_state_arg))

----------------------------------------------------------------------------
(* main: the loop over the branches, process_branches *)

\* variant: the state of a single-state decision is pushed as well
process_branches_push_single(branches_arg, decision) ==
    CASE decision.kind = "Victory" ->
            [branches |-> branches_arg, ret |-> Err("Victory decision leak")]
      [] decision.kind \in {"NoPlayableCards", "OnePlayableCard"} ->
            [branches |-> Append(branches_arg, decision.state),
             ret |-> Ok(decision.state)]
      [] OTHER ->
            IF branches_arg \o decision.states = <<>>
            THEN [branches |-> <<>>, ret |-> Err("No states in branches")]
            ELSE [branches |-> SubSeq(branches_arg \o decision.states, 1,
                                      Len(branches_arg \o decision.states) - 1),
                  ret |-> Ok((branches_arg \o decision.states)[
                                Len(branches_arg \o decision.states)])]

\* variant: the states of a fork are put below the pending ones
process_branches_push_below(branches_arg, decision) ==
    CASE decision.kind = "Victory" ->
            [branches |-> branches_arg, ret |-> Err("Victory decision leak")]
      [] decision.kind \in {"NoPlayableCards", "OnePlayableCard"} ->
            [branches |-> branches_arg, ret |-> Ok(decision.state)]
      [] OTHER ->
            IF decision.states \o branches_arg = <<>>
            THEN [branches |-> <<>>, ret |-> Err("No states in branches")]
            ELSE [branches |-> SubSeq(decision.states \o branches_arg, 1,
                                      Len(decision.states \o branches_arg) - 1),
                  ret |-> Ok((decision.states \o branches_arg)[
                                Len(decision.states \o branches_arg)])]

\* process_branches(branches, decision): branches after the call and the
\* value returned
process_branches(branches_arg, decision) ==
    CASE decision.kind = "Victory" ->
            [branches |-> branches_arg, ret |-> Err("Victory decision leak")]
      [] decision.kind \in {"NoPlayableCards", "OnePlayableCard"} ->
            [branches |-> branches_arg, ret |-> Ok(decision.state)]
      [] OTHER ->
            IF branches_arg \o decision.states = <<>>
            THEN [branches |-> <<>>, ret |-> Err("No states in branches")]
            ELSE [branches |-> SubSeq(branches_arg \o decision.states, 1,
                                      Len(branches_arg \o decision.states) - 1),
                  ret |-> Ok((branches_arg \o decision.states)[
                                Len(branches_arg \o decision.states)])]

\* variant: the loop runs only while both conditions hold
loop_condition_both(victories_arg, branches_arg) ==
    victories_arg = <<>> /\ branches_arg # <<>>

\* the condition of the while loop
loop_condition(victories_arg, branches_arg) ==
    victories_arg = <<>> \/ branches_arg # <<>>

\* the state the match on game_state passes to assess_decision, and where
\* it comes from
classify(current_arg, initial_arg) ==
    IF is_some(current_arg)
    THEN [source |-> "game_state", state |-> unwrap(current_arg)]
    ELSE [source |-> "initial", state |-> initial_arg]

\* variant: an error of assess_decision is dropped and the loop goes on
after_decision_skip_error(out, branches_arg, victories_arg, pb) ==
    IF is_err(out)
    THEN [pc |-> "loop", branches |-> branches_arg, victories |-> victories_arg,
          current |-> None]
    ELSE IF out.val.kind = "Victory"
    THEN [pc |-> "loop", branches |-> branches_arg,
          victories |-> Append(victories_arg, out.val.player),
          current |-> None]
    ELSE IF is_err(pb.ret)
    THEN [pc |-> "error", branches |-> pb.branches, victories |-> victories_arg,
          current |-> None]
    ELSE [pc |-> "loop", branches |-> pb.branches, victories |-> victories_arg,
          current |-> Some(pb.ret.val)]

\* the arms of the match on what assess_decision returned, out, and
\* game_state = next_game_state.take(); pb is what process_branches gives
\* for the decision
after_decision(out, branches_arg, victories_arg, pb) ==
    IF is_err(out)
    THEN [pc |-> "error", branches |-> branches_arg, victories |-> victories_arg,
          current |-> None]
    ELSE IF out.val.kind = "Victory"
    THEN [pc |-> "loop", branches |-> branches_arg,
          victories |-> Append(victories_arg, out.val.player),
          current |-> None]
    ELSE IF is_err(pb.ret)
    THEN [pc |-> "error", branches |-> pb.branches, victories |-> victories_arg,
          current |-> None]
    ELSE [pc |-> "loop", branches |-> pb.branches, victories |-> victories_arg,
          current |-> Some(pb.ret.val)]

\* process_branches on the decision of out, when there is one to process
branches_processed(out, branches_arg) ==
    IF is_ok(out) /\ out.val.kind # "Victory"
    THEN process_branches(branches_arg, out.val)
    ELSE [branches |-> branches_arg, ret |-> Err("not called")]

\* history: the paths of the states a decision carries, in their order;
\* base is the path of the state classified, cards its legal plays
paths_of(out, base, cards) ==
    IF is_err(out) \/ out.val.kind = "Victory" THEN <<>>
    ELSE IF out.val.kind = "NoPlayableCards" THEN <<base>>
    ELSE [i \in 1..Len(cards) |-> Append(base, cards[i])]

\* history: the legal plays of a state, in board order
legal_cards(state) ==
    IF is_ok(GameState_get_playable_cards(state))
       /\ is_some(GameState_get_playable_cards(state).val)
    THEN unwrap(GameState_get_playable_cards(state).val)
    ELSE <<>>

\* variant: the pending states are held in the opposite order
run_after_pending_reversed(from, out, next) ==
    [branches |-> [i \in 1..Len(next.branches) |->
                      next.branches[Len(next.branches) + 1 - i]],
     victories |-> next.victories,
     current |-> next.current, pc |-> next.pc,
     classified |-> Some(from), last_decision |-> Some(out)]

\* the locals of main after an iteration that classified from, got out
\* from assess_decision and next from the arms of the match
run_after(from, out, next) ==
    [branches |-> next.branches, victories |-> next.victories,
     current |-> next.current, pc |-> next.pc,
     classified |-> Some(from), last_decision |-> Some(out)]

\* the iteration from the match on what assess_decision returned, out
run_decided(run, from, out) ==
    run_after(from, out,
              after_decision(out, run.branches, run.victories,
                             branches_processed(out, run.branches)))

\* main from the test of the loop condition to the next one, on the locals
\* run: an iteration, or the end of the loop
run_step(run, initial_arg) ==
    IF run.pc # "loop" THEN run
    ELSE IF ~loop_condition(run.victories, run.branches)
    THEN [run EXCEPT !.pc = "done"]
    ELSE run_decided(run, classify(run.current, initial_arg),
                     assess_decision(classify(run.current, initial_arg).state))

----------------------------------------------------------------------------
(* The state machine of one Stack *)

\* the board and the game are not touched by the calls on a single Stack
BoardIdle ==
    /\ game_board = GameBoard_new
    /\ game_board_before = GameBoard_new

GameIdle ==
    /\ game_state = GameState(GameBoard_new, <<>>, 0)
    /\ game_state_before = game_state
    /\ plays = 0

StackIdle ==
    /\ stack = Stack_new("Spade")
    /\ stack_before = stack
    /\ played = {}

\* no MultiCounter is being iterated
CounterIdle ==
    /\ counter = MultiCounter_new(<<>>, FALSE)
    /\ yielded = <<>>
    /\ exhausted = FALSE
    /\ dealing = None
    /\ shuffled = <<>>

\* GameState::new has not been the way the state was made, and no
\* pass_turn at 255 has been tried
NewIdle ==
    /\ number_of_players = 0
    /\ overflow_probe = None
    /\ CounterIdle

\* main is not running
ExplorerIdle ==
    /\ initial = GameState(GameBoard_new, <<>>, 0)
    /\ branches = <<>>
    /\ victories = <<>>
    /\ current = None
    /\ pc = "idle"
    /\ loop_before = [branches |-> <<>>, victories |-> <<>>, current |-> None]
    /\ classified = None
    /\ last_decision = None
    /\ path = <<>>
    /\ paths = <<>>
    /\ seeds = 0
    /\ pushed = 0
    /\ popped = 0
    /\ completed = 0
    /\ second = [branches |-> <<>>, victories |-> <<>>, current |-> None, pc |-> "idle",
                 classified |-> None, last_decision |-> None]

Init ==
    /\ \E s \in SuitEnum : stack = Stack_new(s)
    /\ stack_before = stack
    /\ op = "new"
    /\ arg = "-"
    /\ result = Ok(Unit)
    /\ played = {}
    /\ BoardIdle
    /\ GameIdle
    /\ NewIdle
    /\ ExplorerIdle

\* a Stack whose private fields were set directly, as the module's tests do
OptionCard == {None} \cup {Some(c) : c \in AllCards}

InitCorrupt ==
    /\ \E s \in SuitEnum, up \in OptionCard, down \in OptionCard :
          stack = Stack(s, up, down)
    /\ stack_before = stack
    /\ op = "new"
    /\ arg = "-"
    /\ result = Ok(Unit)
    /\ played = {}
    /\ BoardIdle
    /\ GameIdle
    /\ NewIdle
    /\ ExplorerIdle

GetPlayableCards ==
    /\ op' = "get_playable_cards"
    /\ arg' = "-"
    /\ result' = Stack_get_playable_cards(stack)
    /\ stack_before' = stack
    /\ UNCHANGED <<stack, played>>
    /\ UNCHANGED <<boardVars, gameVars, plays, newVars, explorerVars>>

PlayCard(card_number) ==
    LET out == Stack_play_card(stack, card_number) IN
    /\ op' = "play_card"
    /\ arg' = card_number
    /\ result' = out.ret
    /\ stack_before' = stack
    /\ stack' = out.self
    /\ played' = IF is_ok(out.ret) THEN played \cup {card_number} ELSE played
    /\ UNCHANGED <<boardVars, gameVars, plays, newVars, explorerVars>>

Next ==
    \/ GetPlayableCards
    \/ \E card_number \in NumberEnum : PlayCard(card_number)

Spec == Init /\ [][Next]_vars

SpecCorrupt == InitCorrupt /\ [][Next]_vars

----------------------------------------------------------------------------
(* The state machine of one GameBoard *)

\* most cards played onto a board in one behaviour
MaxPlays == 3

SuitEnum_iterator == <<"Spade", "Club", "Heart", "Diamond">>

\* the boards the tests build: GameBoard::from of completed stacks of some
\* of the suits, the other stacks new
completed_stacks(suits) ==
    LET chosen == SelectSeq(SuitEnum_iterator, LAMBDA s : s \in suits) IN
    [i \in 1..Len(chosen) |-> Stack_get_completed_stack(chosen[i])]

\* what arg holds when the last call took no card
NoCard == [suit |-> "-", number |-> "-"]

InitBoards == {GameBoard_from(completed_stacks(suits)).val : suits \in SUBSET SuitEnum}

InitBoard ==
    /\ game_board \in InitBoards
    /\ game_board_before = game_board
    /\ op = "new"
    /\ arg = NoCard
    /\ result = Ok(Unit)
    /\ plays = 0
    /\ StackIdle
    /\ NewIdle
    /\ ExplorerIdle
    /\ game_state = GameState(GameBoard_new, <<>>, 0)
    /\ game_state_before = game_state

BoardGetPlayableCards ==
    /\ op' = "get_playable_cards"
    /\ arg' = NoCard
    /\ result' = GameBoard_get_playable_cards(game_board)
    /\ game_board_before' = game_board
    /\ UNCHANGED <<game_board, plays, stackVars, gameVars, newVars, explorerVars>>

BoardPlayCard(card) ==
    LET out == GameBoard_play_card(game_board, card) IN
    /\ is_ok(out.ret) => plays < MaxPlays
    /\ op' = "play_card"
    /\ arg' = card
    /\ result' = out.ret
    /\ game_board_before' = game_board
    /\ game_board' = out.self
    /\ plays' = IF is_ok(out.ret) THEN plays + 1 ELSE plays
    /\ UNCHANGED <<stackVars, gameVars, newVars, explorerVars>>

NextBoard ==
    \/ BoardGetPlayableCards
    \/ \E card \in AllCards : BoardPlayCard(card)

SpecBoard == InitBoard /\ [][NextBoard]_vars

----------------------------------------------------------------------------
(* The state machine of one GameState *)

\* most seats of a game
MaxPlayers == 2

\* most cards played onto the board of a game in one behaviour
MaxGamePlays == 2

\* the cards the fork operation is tried with: sevens, cards next to a
\* seven, which become legal after it is played, and one that does not
TryCards ==
    {Card("Spade", "Seven"), Card("Diamond", "Seven"), Card("Spade", "Six"),
     Card("Spade", "Eight"), Card("Diamond", "Eight"), Card("Heart", "Ace")}

\* the boards a game starts from, as the tests build them: new, one stack
\* completed, three completed (one legal play), all completed (none)
GameInitBoards ==
    {GameBoard_from(completed_stacks(suits)).val :
        suits \in {{}, {"Spade"}, {"Club", "Spade", "Heart"}, SuitEnum}}

\* the hands a seat may be given: no card, or two cards
HandChoices ==
    {<<>>, <<Card("Diamond", "Seven"), Card("Club", "Six")>>}

Deals ==
    UNION {[1..n -> {Player(hand) : hand \in HandChoices}] : n \in 1..MaxPlayers}

InitGame ==
    /\ \E board \in GameInitBoards, players \in Deals :
          game_state = GameState(board, players, 0)
    /\ game_state_before = game_state
    /\ op = "new"
    /\ arg = NoCard
    /\ result = Ok(Unit)
    /\ plays = 0
    /\ StackIdle
    /\ NewIdle
    /\ ExplorerIdle
    /\ BoardIdle

PassTurn ==
    \E out \in {GameState_pass_turn(game_state)} :
    /\ op' = "pass_turn"
    /\ arg' = NoCard
    /\ result' = out.ret
    /\ game_state_before' = game_state
    /\ game_state' = out.self
    /\ UNCHANGED <<plays, stackVars, boardVars, newVars, explorerVars>>

PlayOnlyPlayableCard ==
    \E out \in {GameState_play_only_playable_card(game_state)} :
    /\ is_ok(out.ret) => plays < MaxGamePlays
    /\ op' = "play_only_playable_card"
    /\ arg' = NoCard
    /\ result' = out.ret
    /\ game_state_before' = game_state
    /\ game_state' = out.self
    /\ plays' = IF is_ok(out.ret) THEN plays + 1 ELSE plays
    /\ UNCHANGED <<stackVars, boardVars, newVars, explorerVars>>

\* the call borrows the state immutably; the new state is only returned
PlayCardAndReturnNew(card) ==
    /\ op' = "play_card_and_return_new"
    /\ arg' = card
    /\ result' = GameState_play_card_and_return_new(game_state, card)
    /\ game_state_before' = game_state
    /\ UNCHANGED <<game_state, plays, stackVars, boardVars, newVars, explorerVars>>

\* the states a decision hands to the caller
successors(decision) ==
    CASE decision.kind = "Victory" -> {}
      [] decision.kind = "MultiplePlayableCards" ->
            {decision.states[i] : i \in 1..Len(decision.states)}
      [] OTHER -> {decision.state}

\* a card went onto the board in the decision out
card_played(out) ==
    is_ok(out) /\ out.val.kind \in {"OnePlayableCard", "MultiplePlayableCards"}

\* one classification, after which the search goes on with one of the
\* states the decision carries (with the same state when there is none)
AssessDecision ==
    \E out \in {assess_decision(game_state)} :
    /\ card_played(out) => plays < MaxGamePlays
    /\ op' = "assess_decision"
    /\ arg' = NoCard
    /\ result' = out
    /\ game_state_before' = game_state
    /\ IF is_ok(out) /\ successors(out.val) # {}
       THEN game_state' \in successors(out.val)
       ELSE game_state' = game_state
    /\ plays' = IF card_played(out) THEN plays + 1 ELSE plays
    /\ UNCHANGED <<stackVars, boardVars, newVars, explorerVars>>

NextGame ==
    \/ PassTurn
    \/ PlayOnlyPlayableCard
    \/ \E card \in TryCards : PlayCardAndReturnNew(card)
    \/ AssessDecision

SpecGame == InitGame /\ [][NextGame]_vars

----------------------------------------------------------------------------
(* The state machine of a GameState made by GameState::new *)

\* the player counts GameState::new is called with: those of main and of
\* the tests, the least ones, and those around the limit
PlayerCounts == {0, 1, 2, 3, 4, 26, 27, 30}

\* the state is what GameState::new returned; when it returned no state
\* there is none to call anything on
InitNewGame ==
    /\ \E n \in PlayerCounts, deck \in Decks, overflow_checks \in BOOLEAN :
          /\ number_of_players = n
          /\ result = GameState_new(n, deck, overflow_checks)
    /\ game_state = IF is_ok(result) THEN result.val
                    ELSE GameState(GameBoard_new, <<>>, 0)
    /\ game_state_before = game_state
    /\ op = "new"
    /\ arg = NoCard
    /\ plays = 0
    /\ overflow_probe = None
    /\ CounterIdle
    /\ StackIdle
    /\ BoardIdle
    /\ ExplorerIdle

\* GameState::new returned a state
Constructed == Len(game_state.players) > 0

\* the test pass_turn_catches_overflow_err: on the state GameState::new
\* returned, with player_turn set to 255, pass_turn is called
PassTurnAt255 ==
    \E out \in {GameState_pass_turn([game_state EXCEPT !.player_turn = U8_MAX])} :
    /\ op = "new"
    /\ overflow_probe = None
    /\ overflow_probe' = Some([before |-> [game_state EXCEPT !.player_turn = U8_MAX],
                               after |-> out.self,
                               ret |-> out.ret])
    /\ UNCHANGED <<op, arg, result, plays, number_of_players, counterVars,
                   stackVars, boardVars, gameVars, explorerVars>>

NextNewGame ==
    /\ Constructed
    /\ \/ PassTurn
       \/ PlayOnlyPlayableCard
       \/ \E card \in TryCards : PlayCardAndReturnNew(card)
       \/ AssessDecision
       \/ PassTurnAt255

SpecNewGame == InitNewGame /\ [][NextNewGame]_vars

----------------------------------------------------------------------------
(* The state machine of a MultiCounter iterated by a for loop *)

\* most counters in a MultiCounter iterated on its own
MaxCounters == 2

\* greatest maximum of such a counter
MaxCounterMax == 5

\* the maxima the counters are made with: those of the tests, [3, 5] and
\* [5, 3] among them, all positive
CounterMaxes ==
    UNION {[1..k -> 1..MaxCounterMax] : k \in 1..MaxCounters}

\* the player counts distribute_cards deals to
DealCounts == 1..PLAYER_LIMIT

\* counter.into_iter().collect() of the tests, in both modes, before the
\* first call of next
InitCollect ==
    /\ \E maxes \in CounterMaxes, mode \in BOOLEAN :
          counter = MultiCounter_new(maxes, mode)
    /\ dealing = None
    /\ shuffled = <<>>
    /\ number_of_players = 0
    /\ op = "collect"

\* distribute_cards before the for loop: the empty players, the counter
InitDistribute ==
    /\ \E n \in DealCounts, cards \in Decks :
          /\ number_of_players = n
          /\ shuffled = cards
          /\ counter = MultiCounter_new(<<n, 52>>, FALSE)
          /\ dealing = Some([i \in 1..n |-> Player(<<>>)])
    /\ op = "distribute_cards"

InitCounter ==
    /\ InitCollect \/ InitDistribute
    /\ yielded = <<>>
    /\ exhausted = FALSE
    /\ overflow_probe = None
    /\ arg = NoCard
    /\ result = Ok(Unit)
    /\ plays = 0
    /\ StackIdle
    /\ BoardIdle
    /\ GameIdle
    /\ ExplorerIdle

\* the body of the for loop for the item v, with pushed what push_to_hand
\* gave when cards are dealt
loop_body(v, pushed_arg) ==
    /\ yielded' = Append(yielded, v)
    /\ IF ~is_some(dealing) THEN UNCHANGED <<dealing, result, exhausted>>
       ELSE IF is_panic(pushed_arg)
       THEN result' = pushed_arg /\ exhausted' = TRUE /\ UNCHANGED dealing
       ELSE dealing' = Some(pushed_arg.val) /\ UNCHANGED <<result, exhausted>>

\* one turn of the for loop: next is called; on None the loop ends, on an
\* item the body runs
CounterNext ==
    /\ ~exhausted
    /\ \E overflow_checks \in BOOLEAN :
       \E out \in {MultiCounter_next(counter, overflow_checks)} :
          /\ counter' = out.self
          /\ IF out.panicked
             THEN /\ result' = Panic("attempt to subtract with overflow")
                  /\ exhausted' = TRUE
                  /\ UNCHANGED <<yielded, dealing>>
             ELSE IF ~is_some(out.ret)
             THEN exhausted' = TRUE /\ UNCHANGED <<yielded, dealing, result>>
             ELSE loop_body(unwrap(out.ret),
                            IF is_some(dealing)
                            THEN push_to_hand(unwrap(dealing), shuffled, unwrap(out.ret))
                            ELSE Ok(<<>>))
    /\ UNCHANGED <<op, arg, plays, number_of_players, overflow_probe, shuffled,
                   stackVars, boardVars, gameVars, explorerVars>>

NextCounter == CounterNext

SpecCounter == InitCounter /\ [][NextCounter]_vars

----------------------------------------------------------------------------
(* The state machine of main *)

\* most classifications of the initial state in one behaviour
MaxSeeds == 2

\* the states the search is started from: those GameState::new(4) gives,
\* and states whose hands were set directly, some of them empty, on the
\* boards the tests build
ExplorerInitials ==
    {GameState_new(4, deck, FALSE).val : deck \in Decks}
    \cup {GameState(board, players, 0) : board \in GameInitBoards, players \in Deals}

\* the locals of main before the loop
ExplorerStart ==
    /\ branches = <<>>
    /\ victories = <<>>
    /\ current = None
    /\ pc = "loop"
    /\ loop_before = [branches |-> <<>>, victories |-> <<>>, current |-> None]
    /\ last_decision = None
    /\ classified = None
    /\ path = <<>>
    /\ paths = <<>>
    /\ seeds = 0
    /\ pushed = 0
    /\ popped = 0
    /\ completed = 0
    /\ second = [branches |-> <<>>, victories |-> <<>>, current |-> None, pc |-> "loop",
                 classified |-> None, last_decision |-> None]
    /\ op = "main"
    /\ arg = NoCard
    /\ result = Ok(Unit)
    /\ StackIdle
    /\ BoardIdle
    /\ GameIdle
    /\ NewIdle

InitExplorer ==
    /\ initial \in ExplorerInitials
    /\ ExplorerStart

\* history: the bookkeeping of one iteration; from is what was classified,
\* out what assess_decision returned on it, all the paths after the pushes
Record(from, out, all) ==
    /\ loop_before' = [branches |-> branches, victories |-> victories,
                       current |-> current]
    /\ classified' = Some(from)
    /\ last_decision' = Some(out)
    /\ seeds' = IF from.source = "initial" THEN seeds + 1 ELSE seeds
    /\ completed' = IF is_ok(out) /\ out.val.kind = "Victory"
                    THEN completed + 1 ELSE completed
    /\ pushed' = IF is_ok(out) /\ out.val.kind = "MultiplePlayableCards"
                 THEN pushed + Len(out.val.states) ELSE pushed
    /\ popped' = IF is_ok(out) /\ out.val.kind = "MultiplePlayableCards"
                 THEN popped + 1 ELSE popped
    /\ IF is_err(out) \/ out.val.kind = "Victory"
       THEN path' = <<>> /\ paths' = paths
       ELSE /\ path' = all[Len(all)]
            /\ paths' = SubSeq(all, 1,
                               IF out.val.kind = "MultiplePlayableCards"
                               THEN Len(all) - 1 ELSE Len(paths))

\* one iteration of the while loop, in the first run
Iterate ==
    /\ pc = "loop"
    /\ loop_condition(victories, branches)
    /\ is_some(current) \/ seeds < MaxSeeds
    /\ \E from \in {classify(current, initial)} :
       \E out \in {assess_decision(from.state)} :
       \E next \in {after_decision(out, branches, victories,
                                   branches_processed(out, branches))} :
          /\ pc' = next.pc
          /\ branches' = next.branches
          /\ victories' = next.victories
          /\ current' = next.current
          /\ Record(from, out,
                    paths \o paths_of(out, IF from.source = "initial" THEN <<>> ELSE path,
                                      legal_cards(from.state)))
    /\ UNCHANGED <<initial, op, arg, result, plays, stackVars, boardVars, gameVars, newVars>>

\* the loop condition fails: the victories are tallied and main returns
\* Ok, in the first run
Leave ==
    /\ pc = "loop"
    /\ ~loop_condition(victories, branches)
    /\ pc' = "done"
    /\ UNCHANGED <<initial, branches, victories, current, loop_before, last_decision,
                   classified, path, paths, seeds, pushed, popped, completed,
                   op, arg, result, plays, stackVars, boardVars, gameVars, newVars>>

\* one iteration of the while loop
Loop == Iterate /\ UNCHANGED second

\* the loop condition fails: the victories are tallied and main returns Ok
LoopExit == Leave /\ UNCHANGED second

NextExplorer ==
    \/ Loop
    \/ LoopExit

SpecExplorer == InitExplorer /\ [][NextExplorer]_vars

\* an iteration that leaves every variable as it was: the state classified
\* is the one the iteration before classified and returned
Stalled == is_some(current) /\ loop_before.current = current

\* ENABLED <<Loop>>_vars, as a state predicate
LoopRuns ==
    /\ pc = "loop"
    /\ loop_condition(victories, branches)
    /\ is_some(current) \/ seeds < MaxSeeds
    /\ ~Stalled

\* WF_vars(Loop), with LoopRuns for ENABLED <<Loop>>_vars
LoopIsFair == []<>(~LoopRuns) \/ []<><<Loop>>_vars

\* the loop is the only thread of the program and keeps running: an
\* iteration that can be made is made, and main returns once the loop
\* condition fails
SpecExplorerFair == SpecExplorer /\ LoopIsFair /\ WF_vars(LoopExit)

----------------------------------------------------------------------------
(* The state machine of main run twice from the same initial state *)

\* boards with a stack whose piles were set directly to what no play gives:
\* one pile without the other, and a six on the up pile
FaultyBoards ==
    {[GameBoard_new EXCEPT !.spade_stack =
          Stack("Spade", Some(Card("Spade", "Eight")), None)],
     [GameBoard_new EXCEPT !.heart_stack =
          Stack("Heart", Some(Card("Heart", "Six")), Some(Card("Heart", "Six")))]}

\* the states the two runs are started from: those of the search, the deals
\* of GameState::new to one player and to the most players, and states on
\* the faulty boards
TwinInitials ==
    ExplorerInitials
    \cup {GameState_new(n, deck, FALSE).val : n \in {1, PLAYER_LIMIT}, deck \in Decks}
    \cup {GameState(board, players, 0) : board \in FaultyBoards, players \in Deals}

InitTwin ==
    /\ initial \in TwinInitials
    /\ ExplorerStart

\* both runs make an iteration
TwinLoop == Iterate /\ second' = run_step(second, initial)

\* both runs leave the loop
TwinExit == Leave /\ second' = run_step(second, initial)

NextTwin ==
    \/ TwinLoop
    \/ TwinExit

SpecTwin == InitTwin /\ [][NextTwin]_vars

----------------------------------------------------------------------------
(* Vocabulary of the properties *)

\* position of a rank in the declaration order, Ace = 1 .. King = 13
Ord(n) == CHOOSE i \in 1..Len(NumberEnum_iterator) : NumberEnum_iterator[i] = n

BelowSeven == {n \in NumberEnum : Ord(n) < Ord("Seven")}

AboveSeven == {n \in NumberEnum : Ord(n) > Ord("Seven")}

Virgin(self) == self.up_card = None /\ self.down_card = None

BothSet(self) == self.up_card # None /\ self.down_card # None

Complete(self) ==
    /\ self.up_card = Some(Card(self.suit, "King"))
    /\ self.down_card = Some(Card(self.suit, "Ace"))

\* the set of cards in the list get_playable_cards returns; empty when it
\* returns None or an error
ListedCards(self) ==
    LET got == Stack_get_playable_cards(self) IN
    IF is_ok(got) /\ is_some(got.val)
    THEN {unwrap(got.val)[i] : i \in 1..Len(unwrap(got.val))}
    ELSE {}

Succeeded == op = "play_card" /\ is_ok(result)

Failed == op = "play_card" /\ is_err(result)

----------------------------------------------------------------------------
(* Properties of the Stack *)

\* C1: in every state reached from Stack::new by play_card calls and for
\* every rank r, play_card(r) returns Ok exactly when the card (suit, r) is
\* in the list get_playable_cards() returns on that same state; the call
\* last made obeyed the same rule on the state it was made on.
C1_PlayIffPlayable ==
    /\ \A r \in NumberEnum :
          is_ok(Stack_play_card(stack, r).ret)
             <=> Card(stack.suit, r) \in ListedCards(stack)
    /\ op = "play_card" =>
          (is_ok(result) <=> Card(stack_before.suit, arg) \in ListedCards(stack_before))

C1_Witness ==
    /\ Failed
    /\ arg = "Seven"
    /\ Cardinality(played) >= 3
    /\ Cardinality(ListedCards(stack)) = 2

\* C2: a rank that play_card has accepted is not in the next
\* get_playable_cards() result nor in any later one.
C2_PlayedNeverPlayableAgain ==
    /\ \A r \in played : Card(stack.suit, r) \notin ListedCards(stack)
    /\ Succeeded => arg \in played

C2_Witness ==
    /\ Succeeded
    /\ arg = "Eight"
    /\ Cardinality(played) >= 2
    /\ ListedCards(stack) # {}

\* C3: in every state reached from Stack::new through play_card calls,
\* successful or failed, up_card and down_card are both unset or both set,
\* up_card's rank is in Seven..King and down_card's in Ace..Seven, and
\* get_playable_cards returns no error.
C3_PilesWellFormed ==
    /\ is_some(stack.up_card) <=> is_some(stack.down_card)
    /\ is_some(stack.up_card) =>
          /\ unwrap(stack.up_card).number \in AboveSeven \cup {"Seven"}
          /\ unwrap(stack.down_card).number \in BelowSeven \cup {"Seven"}
    /\ is_ok(Stack_get_playable_cards(stack))
    /\ op = "get_playable_cards" => is_ok(result)
    /\ Failed => result.err \in {"UnplayableCardNumber", "CompletedStackPlayedOn"}

C3_Witness ==
    /\ Failed
    /\ BothSet(stack)
    /\ unwrap(stack.up_card).number = "Ten"
    /\ unwrap(stack.down_card).number = "Three"

\* C4: a successful play_card moves the rank of up_card only to the
\* immediately next higher rank (to Seven from unset) and the rank of
\* down_card only to the immediately next lower rank (to Seven from unset);
\* a King on the up pile stays, and no card above Seven is listed from then
\* on; an Ace on the down pile stays, and no card below Seven is listed.
C4_Step ==
    /\ \/ stack'.up_card = stack.up_card
       \/ stack.up_card = None /\ stack'.up_card = Some(Card(stack.suit, "Seven"))
       \/ /\ stack.up_card # None
          /\ stack'.up_card # None
          /\ Ord(unwrap(stack'.up_card).number) = Ord(unwrap(stack.up_card).number) + 1
    /\ \/ stack'.down_card = stack.down_card
       \/ stack.down_card = None /\ stack'.down_card = Some(Card(stack.suit, "Seven"))
       \/ /\ stack.down_card # None
          /\ stack'.down_card # None
          /\ Ord(unwrap(stack'.down_card).number) = Ord(unwrap(stack.down_card).number) - 1
    /\ stack.up_card = Some(Card(stack.suit, "King")) =>
          /\ stack'.up_card = stack.up_card
          /\ \A c \in ListedCards(stack) \cup ListedCards(stack') :
                c.number \notin AboveSeven
    /\ stack.down_card = Some(Card(stack.suit, "Ace")) =>
          /\ stack'.down_card = stack.down_card
          /\ \A c \in ListedCards(stack) \cup ListedCards(stack') :
                c.number \notin BelowSeven

C4_Monotone == [][C4_Step]_vars

C4_Witness ==
    /\ Succeeded
    /\ stack_before.up_card = Some(Card(stack.suit, "King"))
    /\ stack.down_card = Some(Card(stack.suit, "Four"))

\* C5: a Stack with up_card = King and down_card = Ace returns Ok(None),
\* not an empty list, from get_playable_cards(), and play_card fails with
\* CompletedStackPlayedOn for every rank, King and Ace included.
C5_CompletedStack ==
    /\ Complete(stack) =>
          /\ Stack_get_playable_cards(stack) = Ok(None)
          /\ \A r \in NumberEnum :
                Stack_play_card(stack, r).ret = Err("CompletedStackPlayedOn")
    /\ Complete(stack_before) /\ op = "play_card" =>
          result = Err("CompletedStackPlayedOn")
    /\ Complete(stack_before) /\ op = "get_playable_cards" =>
          result = Ok(None)

C5_Witness ==
    /\ Complete(stack_before)
    /\ op = "play_card"
    /\ arg = "King"
    /\ result = Err("CompletedStackPlayedOn")

\* C6: play_card(Seven) on a stack with both piles unset succeeds and sets
\* up_card and down_card both to the Seven of the suit in that one call;
\* on the resulting state get_playable_cards() lists exactly the Eight and
\* the Six of the suit.
C6_SevenFounds ==
    /\ Virgin(stack) =>
          LET out == Stack_play_card(stack, "Seven") IN
          /\ out.ret = Ok(Unit)
          /\ out.self.up_card = Some(Card(stack.suit, "Seven"))
          /\ out.self.down_card = Some(Card(stack.suit, "Seven"))
          /\ is_ok(Stack_get_playable_cards(out.self))
          /\ ListedCards(out.self) =
                {Card(stack.suit, "Eight"), Card(stack.suit, "Six")}
    /\ Virgin(stack_before) /\ op = "play_card" /\ arg = "Seven" =>
          /\ result = Ok(Unit)
          /\ stack.up_card = Some(Card(stack.suit, "Seven"))
          /\ stack.down_card = Some(Card(stack.suit, "Seven"))
          /\ stack.suit = stack_before.suit
          /\ ListedCards(stack) =
                {Card(stack.suit, "Eight"), Card(stack.suit, "Six")}

C6_Witness ==
    /\ Virgin(stack_before)
    /\ Succeeded
    /\ arg = "Seven"
    /\ stack.suit = "Heart"

\* C7: for every suit, get_playable_cards() on a Stack with both piles
\* unset returns a list of exactly one card, the Seven of that suit.
C7_NewStackListsSeven ==
    /\ Virgin(stack) =>
          Stack_get_playable_cards(stack) = Ok(Some(<<Card(stack.suit, "Seven")>>))
    /\ Virgin(stack_before) /\ op = "get_playable_cards" =>
          result = Ok(Some(<<Card(stack_before.suit, "Seven")>>))

C7_Witness ==
    /\ Virgin(stack_before)
    /\ op = "get_playable_cards"
    /\ stack.suit = "Diamond"
    /\ Len(unwrap(result.val)) = 1

\* C8: a successful play_card(r) with r in Ace..Six sets down_card to r and
\* leaves up_card and suit as they were; with r in Eight..King it sets
\* up_card to r and leaves down_card and suit as they were.
C8_OnePileChanges ==
    /\ Succeeded /\ arg \in BelowSeven =>
          /\ stack.down_card = Some(Card(stack_before.suit, arg))
          /\ stack.down_card # stack_before.down_card
          /\ stack.up_card = stack_before.up_card
          /\ stack.suit = stack_before.suit
    /\ Succeeded /\ arg \in AboveSeven =>
          /\ stack.up_card = Some(Card(stack_before.suit, arg))
          /\ stack.up_card # stack_before.up_card
          /\ stack.down_card = stack_before.down_card
          /\ stack.suit = stack_before.suit

C8_Witness ==
    /\ Succeeded
    /\ arg = "Five"
    /\ unwrap(stack.up_card).number = "Nine"

\* C9: when play_card fails with UnplayableCardNumber or
\* CompletedStackPlayedOn, up_card, down_card and suit are what they were
\* before the call.
C9_FailedPlayChangesNothing ==
    Failed /\ result.err \in {"UnplayableCardNumber", "CompletedStackPlayedOn"} =>
        /\ stack.up_card = stack_before.up_card
        /\ stack.down_card = stack_before.down_card
        /\ stack.suit = stack_before.suit

C9_Witness ==
    /\ Failed
    /\ result.err = "UnplayableCardNumber"
    /\ arg = "King"
    /\ stack.up_card = Some(Card(stack.suit, "Seven"))

\* C10: for a Stack whose fields were set to a corrupted combination,
\* get_playable_cards() returns InvalidStackState when exactly one pile is
\* set, InvalidUpStack when both are set and up_card holds a rank below
\* Seven, InvalidDownStack when both are set, up_card is valid and
\* down_card holds a rank above Seven; it returns no card list for these.
C10_Expected(self) ==
    CASE is_some(self.up_card) # is_some(self.down_card) -> Err("InvalidStackState")
      [] BothSet(self) /\ unwrap(self.up_card).number \in BelowSeven ->
            Err("InvalidUpStack")
      [] /\ BothSet(self)
         /\ unwrap(self.up_card).number \notin BelowSeven
         /\ unwrap(self.down_card).number \in AboveSeven ->
            Err("InvalidDownStack")
      [] OTHER -> Ok(Unit)

C10_CorruptedStackErrors ==
    /\ is_err(C10_Expected(stack)) =>
          Stack_get_playable_cards(stack) = C10_Expected(stack)
    /\ op = "get_playable_cards" /\ is_err(C10_Expected(stack_before)) =>
          result = C10_Expected(stack_before)

C10_Witness ==
    /\ op = "get_playable_cards"
    /\ BothSet(stack_before)
    /\ unwrap(stack_before.up_card).number = "Two"
    /\ unwrap(stack_before.down_card).number = "Queen"
    /\ result = Err("InvalidUpStack")

----------------------------------------------------------------------------
(* Properties of the GameBoard *)

StacksOf(board) ==
    {board.spade_stack, board.club_stack, board.heart_stack, board.diamond_stack}

\* the set of cards in an Option<Vec<Card>>; empty for None
CardsIn(option) ==
    IF is_some(option) THEN {unwrap(option)[i] : i \in 1..Len(unwrap(option))} ELSE {}

BoardComplete(board) == \A st \in StacksOf(board) : Complete(st)

\* C11: on every board reached by legal play, GameBoard::get_playable_cards
\* returns exactly the union of the cards the four stacks'
\* get_playable_cards return, each once, and it returns None exactly when
\* every one of the four stacks returns None.
C11_BoardIsUnionOfStacks ==
    LET got == GameBoard_get_playable_cards(game_board) IN
    /\ is_ok(got)
    /\ CardsIn(got.val) = UNION {ListedCards(st) : st \in StacksOf(game_board)}
    /\ is_some(got.val) => Len(unwrap(got.val)) = Cardinality(CardsIn(got.val))
    /\ got.val = None <=>
          \A st \in StacksOf(game_board) : Stack_get_playable_cards(st) = Ok(None)
    /\ op = "get_playable_cards" =>
          /\ is_ok(result)
          /\ CardsIn(result.val) =
                UNION {ListedCards(st) : st \in StacksOf(game_board_before)}

C11_Witness ==
    /\ op = "get_playable_cards"
    /\ plays = 2
    /\ Complete(game_board.spade_stack)
    /\ Virgin(game_board.club_stack)
    /\ Cardinality(CardsIn(result.val)) = 5
    /\ Card("Diamond", "Six") \in CardsIn(result.val)

\* C12: GameBoard::play_card(card) changes at most the stack whose suit is
\* card.suit; the other three stacks are as before, whether the call
\* succeeds or fails.
C12_OtherStacksUntouched ==
    op = "play_card" =>
        \A suit \in SuitEnum \ {arg.suit} :
            game_board[stack_field(suit)] = game_board_before[stack_field(suit)]

C12_Witness ==
    /\ Succeeded
    /\ arg = Card("Heart", "Eight")
    /\ ~Virgin(game_board.diamond_stack)
    /\ game_board.heart_stack # game_board_before.heart_stack

\* C13: GameBoard::play_card(card) with a card that is not legal on the
\* stack of card.suit fails with StackError carrying that stack's error
\* (CompletedStackPlayedOn on a complete stack, UnplayableCardNumber
\* otherwise) and the name of card.suit, and the board is unchanged.
C13_IllegalCardRejected ==
    op = "play_card"
      /\ arg \notin ListedCards(game_board_before[stack_field(arg.suit)]) =>
        /\ result =
              Err(StackError(
                    IF Complete(game_board_before[stack_field(arg.suit)])
                    THEN "CompletedStackPlayedOn" ELSE "UnplayableCardNumber",
                    stack_name(arg.suit)))
        /\ game_board = game_board_before

C13_Witness ==
    /\ Failed
    /\ arg = Card("Diamond", "Six")
    /\ result = Err(StackError("UnplayableCardNumber", "Diamonds"))
    /\ plays >= 1

----------------------------------------------------------------------------
(* Properties of the GameState and of assess_decision *)

Assessed == op = "assess_decision"

\* the list of legal plays on the board of a state, <<>> when there is none
LegalList(state) ==
    LET got == GameBoard_get_playable_cards(state.game_board) IN
    IF is_ok(got) /\ is_some(got.val) THEN unwrap(got.val) ELSE <<>>

LegalPlays(state) == {LegalList(state)[i] : i \in 1..Len(LegalList(state))}

MoverHasCards(state) == Len(state.players[state.player_turn + 1].hand) > 0

NextSeat(state) == (state.player_turn + 1) % Len(state.players)

\* board b differs from board a by exactly the card played on its stack
PlayedOn(a, b, card) ==
    LET before == a[stack_field(card.suit)]
        after == b[stack_field(card.suit)]
    IN
    /\ \A suit \in SuitEnum \ {card.suit} : b[stack_field(suit)] = a[stack_field(suit)]
    /\ after.suit = before.suit
    /\ CASE card.number = "Seven" ->
               after.up_card = Some(card) /\ after.down_card = Some(card)
         [] card.number \in AboveSeven ->
               after.up_card = Some(card) /\ after.down_card = before.down_card
         [] OTHER ->
               after.down_card = Some(card) /\ after.up_card = before.up_card
    /\ b # a

RECURSIVE TotalCards(_)
TotalCards(players) ==
    IF players = <<>> THEN 0
    ELSE Len(Head(players).hand) + TotalCards(Tail(players))

\* C14: assess_decision returns Victory(seat) exactly when the hand of the
\* seat at the turn pointer is empty, whatever the number of legal plays,
\* with seat equal to the turn pointer; a Victory carries no state.
C14_VictoryIffEmptyHand ==
    Assessed =>
        /\ ~MoverHasCards(game_state_before) <=>
              (is_ok(result) /\ result.val.kind = "Victory")
        /\ ~MoverHasCards(game_state_before) =>
              /\ result.val.player = game_state_before.player_turn
              /\ DOMAIN result.val = {"kind", "player"}
              /\ game_state = game_state_before

C14_Witness ==
    /\ Assessed
    /\ result.val.kind = "Victory"
    /\ result.val.player = 1
    /\ Cardinality(LegalPlays(game_state_before)) >= 2
    /\ plays >= 1

\* C15: when the seat to move has a non-empty hand and the board has no
\* legal play, assess_decision returns NoPlayableCards with a state whose
\* turn pointer is one seat further (wrapping) and whose board and hands
\* are those of the state given.
C15_NoPlayableCardsPassesTurn ==
    Assessed /\ MoverHasCards(game_state_before)
             /\ LegalPlays(game_state_before) = {} =>
        /\ is_ok(result)
        /\ result.val.kind = "NoPlayableCards"
        /\ result.val.state.player_turn = NextSeat(game_state_before)
        /\ result.val.state.game_board = game_state_before.game_board
        /\ result.val.state.players = game_state_before.players

C15_Witness ==
    /\ Assessed
    /\ is_ok(result)
    /\ result.val.kind = "NoPlayableCards"
    /\ game_state_before.player_turn = 1
    /\ result.val.state.player_turn = 0
    /\ BoardComplete(game_state_before.game_board)

\* the board the test builds: Club, Spade and Heart complete, Diamond new
ThreeComplete == GameBoard_from(completed_stacks({"Club", "Spade", "Heart"})).val

\* C16: when the seat to move has a non-empty hand and exactly one legal
\* play exists, assess_decision returns OnePlayableCard with one state, in
\* which that card has been played on the board and the turn pointer is
\* one seat further; a board with three complete stacks and a new Diamond
\* stack has exactly the Diamond Seven as legal play and is so classified.
C16_OnePlayableCardIsPlayed ==
    /\ Assessed /\ MoverHasCards(game_state_before)
                /\ Len(LegalList(game_state_before)) = 1 =>
          /\ is_ok(result)
          /\ result.val.kind = "OnePlayableCard"
          /\ PlayedOn(game_state_before.game_board, result.val.state.game_board,
                      LegalList(game_state_before)[1])
          /\ result.val.state.player_turn = NextSeat(game_state_before)
    /\ Assessed /\ MoverHasCards(game_state_before)
                /\ game_state_before.game_board = ThreeComplete =>
          /\ LegalList(game_state_before) = <<Card("Diamond", "Seven")>>
          /\ result.val.kind = "OnePlayableCard"

C16_Witness ==
    /\ Assessed
    /\ is_ok(result)
    /\ result.val.kind = "OnePlayableCard"
    /\ game_state_before.game_board = ThreeComplete
    /\ game_state_before.player_turn = 1
    /\ game_state.player_turn = 0

\* C17: when the seat to move has a non-empty hand and N >= 2 legal plays
\* exist, assess_decision returns MultiplePlayableCards with exactly N
\* states, the i-th differing from the state given by exactly the i-th
\* legal card played on the board and the turn pointer one seat further;
\* the fork operation leaves the state it is called on as it was; a fresh
\* board has the four Sevens as legal plays and yields 4 forks.
C17_OneForkPerLegalCard ==
    /\ Assessed /\ MoverHasCards(game_state_before)
                /\ Len(LegalList(game_state_before)) >= 2 =>
          /\ is_ok(result)
          /\ result.val.kind = "MultiplePlayableCards"
          /\ Len(result.val.states) = Len(LegalList(game_state_before))
          /\ \A i \in 1..Len(result.val.states) :
                /\ PlayedOn(game_state_before.game_board,
                            result.val.states[i].game_board,
                            LegalList(game_state_before)[i])
                /\ result.val.states[i].player_turn = NextSeat(game_state_before)
                /\ result.val.states[i].players = game_state_before.players
    /\ op = "play_card_and_return_new" => game_state = game_state_before
    /\ Assessed /\ MoverHasCards(game_state_before)
                /\ game_state_before.game_board = GameBoard_new =>
          /\ LegalPlays(game_state_before) = {Card(s, "Seven") : s \in SuitEnum}
          /\ Len(result.val.states) = 4

C17_Witness ==
    /\ Assessed
    /\ is_ok(result)
    /\ result.val.kind = "MultiplePlayableCards"
    /\ Len(result.val.states) = 5
    /\ game_state_before.player_turn = 1
    /\ game_state \in {result.val.states[i] : i \in 1..5}

\* C18: every play of a card, by play_only_playable_card or by
\* play_card_and_return_new, removes the card from a hand: the number of
\* cards held in hands is one less in the resulting state.
C18_PlayRemovesCardFromHand ==
    /\ op = "play_only_playable_card" /\ is_ok(result) =>
          TotalCards(game_state.players) = TotalCards(game_state_before.players) - 1
    /\ op = "play_card_and_return_new" /\ is_ok(result) =>
          TotalCards(result.val.players) = TotalCards(game_state_before.players) - 1

\* C19: play_only_playable_card fails with MoreThanOnePlayableCard when
\* the board has more than one legal play and with NoPlayableCard when it
\* has none; the board, the hands and the turn pointer are then unchanged.
C19_ForcedPlayErrors ==
    op = "play_only_playable_card" =>
        /\ Len(LegalList(game_state_before)) > 1 =>
              /\ is_err(result)
              /\ result.err.kind = "MoreThanOnePlayableCard"
              /\ game_state = game_state_before
        /\ Len(LegalList(game_state_before)) = 0 =>
              /\ is_err(result)
              /\ result.err.kind = "NoPlayableCard"
              /\ game_state = game_state_before

C19_Witness ==
    /\ op = "play_only_playable_card"
    /\ is_err(result)
    /\ result.err.kind = "MoreThanOnePlayableCard"
    /\ game_state.player_turn = 1
    /\ plays = 2

\* C20: play_card_and_return_new(card) fails with NoPlayableCard when the
\* board has no legal play, with OnlyOnePlayableCard when it has exactly
\* one (also when card is that one), with UnplayableCard when it has two
\* or more and card is not among them; otherwise it returns a new state
\* with card played and the turn pointer one seat further. The state it is
\* called on is unchanged in every case.
C20_ForkOperation ==
    op = "play_card_and_return_new" =>
        LET n == Len(LegalList(game_state_before)) IN
        /\ game_state = game_state_before
        /\ n = 0 => is_err(result) /\ result.err.kind = "NoPlayableCard"
        /\ n = 1 => is_err(result) /\ result.err.kind = "OnlyOnePlayableCard"
        /\ n >= 2 /\ arg \notin LegalPlays(game_state_before) =>
              is_err(result) /\ result.err.kind = "UnplayableCard"
        /\ n >= 2 /\ arg \in LegalPlays(game_state_before) =>
              /\ is_ok(result)
              /\ PlayedOn(game_state_before.game_board, result.val.game_board, arg)
              /\ result.val.player_turn = NextSeat(game_state_before)

C20_Witness ==
    /\ op = "play_card_and_return_new"
    /\ LegalList(game_state_before) = <<arg>>
    /\ is_err(result)
    /\ result.err.kind = "OnlyOnePlayableCard"
    /\ game_state.player_turn = 1

----------------------------------------------------------------------------
(* Properties of a GameState made by GameState::new *)

PlayerCount(state) == Len(state.players)

\* the state after k successive pass_turn calls
RECURSIVE pass_turns(_, _)
pass_turns(state, k) ==
    IF k = 0 THEN state ELSE pass_turns(GameState_pass_turn(state).self, k - 1)

\* the states the last call produced: the state called on, and those returned
Produced ==
    {game_state}
    \cup (IF op = "play_card_and_return_new" /\ is_ok(result) THEN {result.val} ELSE {})
    \cup (IF op = "assess_decision" /\ is_ok(result) THEN successors(result.val) ELSE {})

IsOverflowError(r) == is_err(r) /\ r.err.kind = "OverflowError"

\* C21: with P players pass_turn sets the turn pointer to (turn + 1) mod P,
\* one more below the last seat and 0 after it, so that P successive calls
\* from seat 0 end on seat 0.
C21_PassTurnIsModular ==
    /\ op = "pass_turn" =>
          /\ is_ok(result)
          /\ game_state.player_turn =
                (game_state_before.player_turn + 1) % PlayerCount(game_state_before)
          /\ game_state_before.player_turn < PlayerCount(game_state_before) - 1 =>
                game_state.player_turn = game_state_before.player_turn + 1
          /\ game_state_before.player_turn = PlayerCount(game_state_before) - 1 =>
                game_state.player_turn = 0
    /\ Constructed /\ game_state.player_turn = 0 =>
          /\ pass_turns(game_state, PlayerCount(game_state)).player_turn = 0
          /\ \A k \in 1..(PlayerCount(game_state) - 1) :
                pass_turns(game_state, k).player_turn = k

C21_Witness ==
    /\ op = "pass_turn"
    /\ PlayerCount(game_state) = 26
    /\ game_state_before.player_turn = 25
    /\ game_state.player_turn = 0

\* C22: in every state reached from GameState::new(n) by pass_turn,
\* play_only_playable_card, play_card_and_return_new and assess_decision
\* the turn pointer is below the number of players, which is n throughout.
C22_TurnPointerInRange ==
    Constructed =>
        \A state \in Produced :
            /\ state.player_turn < PlayerCount(state)
            /\ PlayerCount(state) = number_of_players

C22_Witness ==
    /\ op = "assess_decision"
    /\ is_ok(result)
    /\ result.val.kind = "MultiplePlayableCards"
    /\ number_of_players = 4
    /\ game_state_before.player_turn = 3
    /\ game_state.player_turn = 0
    /\ plays >= 2

\* C23: pass_turn called with the turn pointer at 255 returns OverflowError
\* and leaves the pointer at 255; no call made on a state reached from
\* GameState::new(n), n <= 26, by the state's own operations returns it.
C23_OverflowOnlyAt255 ==
    /\ is_some(overflow_probe) =>
          /\ IsOverflowError(unwrap(overflow_probe).ret)
          /\ unwrap(overflow_probe).after = unwrap(overflow_probe).before
          /\ unwrap(overflow_probe).after.player_turn = 255
    /\ op \in {"pass_turn", "play_only_playable_card",
               "play_card_and_return_new", "assess_decision"} =>
          ~IsOverflowError(result)
    /\ Constructed => ~IsOverflowError(GameState_pass_turn(game_state).ret)

C23_Witness ==
    /\ is_some(overflow_probe)
    /\ IsOverflowError(unwrap(overflow_probe).ret)
    /\ number_of_players = 26
    /\ op = "pass_turn"
    /\ game_state_before.player_turn = 25
    /\ is_ok(result)

\* C24: GameState::new(n) returns TooManyPlayers exactly when n > 26, and
\* for every n <= 26 a state with n players, the turn pointer 0 and a
\* board of four stacks on which nothing has been played.
C24_NewChecksPlayerLimit ==
    op = "new" =>
        /\ (is_err(result) /\ result.err.kind = "TooManyPlayers")
              <=> number_of_players > 26
        /\ number_of_players <= 26 =>
              /\ is_ok(result)
              /\ PlayerCount(result.val) = number_of_players
              /\ result.val.player_turn = 0
              /\ \A st \in StacksOf(result.val.game_board) : Virgin(st)

----------------------------------------------------------------------------
(* Properties of main *)

\* the cards lying on a stack: from the top of its down pile to the top
\* of its up pile
OnStack(st) ==
    IF Virgin(st) THEN {}
    ELSE {Card(st.suit, n) : n \in {n \in NumberEnum :
              /\ Ord(unwrap(st.down_card).number) <= Ord(n)
              /\ Ord(n) <= Ord(unwrap(st.up_card).number)}}

OnBoard(board) == UNION {OnStack(st) : st \in StacksOf(board)}

SetOf(seq) == {seq[i] : i \in 1..Len(seq)}

\* p lists, each once, the cards that separate the board of state from
\* the board of initial
PathTo(state, p) ==
    /\ Cardinality(SetOf(p)) = Len(p)
    /\ SetOf(p) \cap OnBoard(initial.game_board) = {}
    /\ OnBoard(state.game_board) = OnBoard(initial.game_board) \cup SetOf(p)

\* the last iteration got a decision of this kind
LastKind(kind) ==
    /\ is_some(last_decision)
    /\ is_ok(unwrap(last_decision))
    /\ unwrap(last_decision).val.kind = kind

LastDecision == unwrap(last_decision).val

\* initial is a deal of the 52 cards to four players on a new board
IsFourPlayerDeal ==
    /\ Len(initial.players) = 4
    /\ TotalCards(initial.players) = 52
    /\ initial.game_board = GameBoard_new
    /\ initial.player_turn = 0

\* C25: from any deal of the 52 cards to four players the loop of main
\* ends, with at least one victory recorded.
C25_ExplorerTerminates ==
    (pc = "loop" /\ IsFourPlayerDeal) => <>(pc = "done" /\ victories # <<>>)

\* C26: on the path from the initial state to any state the search holds,
\* at most 52 cards have been played and no card has been played twice.
C26_PathPlaysEachCardOnce ==
    /\ is_some(current) =>
          /\ Len(path) <= 52
          /\ PathTo(unwrap(current), path)
    /\ Len(paths) = Len(branches)
    /\ \A i \in 1..Len(branches) :
          /\ Len(paths[i]) <= 52
          /\ PathTo(branches[i], paths[i])

C26_Witness ==
    /\ IsFourPlayerDeal
    /\ is_some(current)
    /\ Len(path) = 52
    /\ LastKind("OnePlayableCard")

\* the last iteration was the one after a Victory: it began with no
\* current state and with a victory recorded
FollowedVictory ==
    /\ is_some(classified)
    /\ loop_before.current = None
    /\ loop_before.victories # <<>>

C29_ForksPushedLastPopped ==
    LastKind("MultiplePlayableCards") =>
        /\ Len(branches) = Len(loop_before.branches) + Len(LastDecision.states) - 1
        /\ branches = loop_before.branches
                        \o SubSeq(LastDecision.states, 1, Len(LastDecision.states) - 1)
        /\ current = Some(LastDecision.states[Len(LastDecision.states)])
        /\ Len(LegalList(unwrap(classified).state)) = Len(LastDecision.states)
        /\ PlayedOn(unwrap(classified).state.game_board,
                    unwrap(current).game_board,
                    LegalList(unwrap(classified).state)[Len(LastDecision.states)])

C29_Witness ==
    /\ LastKind("MultiplePlayableCards")
    /\ Len(LastDecision.states) = 5
    /\ Len(loop_before.branches) = 3
    /\ Len(branches) = 7

\* C30: on a NoPlayableCards or OnePlayableCard decision the state of the
\* decision becomes the current state; the pending stack and the recorded
\* victories stay as they were.
C30_SingleStateContinues ==
    LastKind("NoPlayableCards") \/ LastKind("OnePlayableCard") =>
        /\ current = Some(LastDecision.state)
        /\ branches = loop_before.branches
        /\ victories = loop_before.victories

C30_Witness ==
    /\ LastKind("OnePlayableCard")
    /\ Len(branches) >= 3
    /\ branches = loop_before.branches
    /\ current # loop_before.current

\* the state with its hands replaced by others, the same number of them
WithHands(state, players) == [state EXCEPT !.players = players]

\* what a decision shows besides the hands: its kind, the seat of a
\* Victory, and the board and turn pointer of each state it carries
Shape(out) ==
    IF is_err(out) THEN out
    ELSE CASE out.val.kind = "Victory" -> Ok(<<"Victory", out.val.player>>)
           [] out.val.kind = "MultiplePlayableCards" ->
                 Ok(<<"MultiplePlayableCards",
                      [i \in 1..Len(out.val.states) |->
                          <<out.val.states[i].game_board, out.val.states[i].player_turn>>]>>)
           [] OTHER ->
                 Ok(<<out.val.kind,
                      <<out.val.state.game_board, out.val.state.player_turn>>>>)

\* hands to compare with: none, one that holds a seven, one that holds
\* no seven
OtherHands ==
    {<<>>, <<Card("Spade", "Seven")>>,
     <<Card("Heart", "Ace"), Card("Spade", "Eight"), Card("Club", "King")>>}

\* the deals of these hands to as many seats as the state has, where the
\* seat to move holds a card
OtherDeals(state) ==
    {players \in [1..Len(state.players) -> {Player(hand) : hand \in OtherHands}] :
        MoverHasCards(WithHands(state, players))}

\* out, the decision on the state with the hands players, is result but
\* for the hands, and its states carry the hands players
SameButHands(out, players) ==
    /\ Shape(out) = Shape(result)
    /\ is_ok(out) => \A after \in successors(out.val) : after.players = players

\* C36: when the seat to move holds a card, the decision of assess_decision
\* (its kind, and the board and turn pointer of every state it carries) is
\* the same whatever cards the hands hold; the states carry the hands they
\* were given, and there is one state for every card legal on the board,
\* held by the seat or not.
C36_DecisionIgnoresHands ==
    Assessed /\ MoverHasCards(game_state_before) =>
        /\ \A players \in OtherDeals(game_state_before) :
              SameButHands(assess_decision(WithHands(game_state_before, players)),
                           players)
        /\ is_ok(result)
        /\ result.val.kind # "Victory"
        /\ LegalList(game_state_before) # <<>> =>
              \A card \in LegalPlays(game_state_before) :
                 \E after \in successors(result.val) :
                    PlayedOn(game_state_before.game_board, after.game_board, card)

\* a fork decision in which a card no hand holds was played, and for which
\* another deal exists
C36_Witness ==
    /\ Assessed
    /\ MoverHasCards(game_state_before)
    /\ is_ok(result)
    /\ result.val.kind = "MultiplePlayableCards"
    /\ Cardinality(OtherDeals(game_state_before)) >= 2
    /\ \E card \in LegalPlays(game_state_before) :
          \A i \in 1..Len(game_state_before.players) :
             ~contains(game_state_before.players[i].hand, card)

\* C37: a state whose board has its four stacks complete and whose seat to
\* move holds a card is classified NoPlayableCards; the state returned,
\* which the search goes on with, differs only in the turn pointer, moved to
\* the next seat, so the board stays complete; nothing is pushed.
C37_CompleteBoardAbsorbing ==
    /\ is_some(classified)
    /\ is_some(last_decision)
    /\ BoardComplete(unwrap(classified).state.game_board)
    /\ MoverHasCards(unwrap(classified).state)
    => /\ LastKind("NoPlayableCards")
       /\ LastDecision.state =
             [unwrap(classified).state EXCEPT
                 !.player_turn = NextSeat(unwrap(classified).state)]
       /\ current = Some(LastDecision.state)
       /\ BoardComplete(unwrap(current).game_board)
       /\ branches = loop_before.branches
       /\ pc = "loop"

\* the 52 cards of a deal are on the board and the turn has gone round
C37_Witness ==
    /\ IsFourPlayerDeal
    /\ Len(path) = 52
    /\ is_some(classified)
    /\ BoardComplete(unwrap(classified).state.game_board)
    /\ LastKind("NoPlayableCards")
    /\ unwrap(classified).state.player_turn = 3
    /\ unwrap(current).player_turn = 0

RECURSIVE Gcd(_, _)
Gcd(a, b) == IF b = 0 THEN a ELSE Gcd(b, a % b)

\* least common multiple of the numbers of a sequence
RECURSIVE Lcm(_)
Lcm(maxes) ==
    IF maxes = <<>> THEN 1
    ELSE (Head(maxes) * Lcm(Tail(maxes))) \div Gcd(Head(maxes), Lcm(Tail(maxes)))

\* greatest number of a sequence
Greatest(maxes) ==
    CHOOSE m \in SetOf(maxes) : \A other \in SetOf(maxes) : other <= m

\* the i-th item, counted from 0, has in each component i modulo the
\* maximum of that counter
ItemsCountModulo ==
    \A i \in 1..Len(yielded) :
       /\ Len(yielded[i]) = Len(counter.counter_maxes)
       /\ \A k \in 1..Len(counter.counter_maxes) :
             yielded[i][k] = (i - 1) % counter.counter_maxes[k]

\* the iterator yields exactly total items: never more, next returns None
\* exactly when that many were yielded, and the loop ends only then
YieldsExactly(total) ==
    /\ Len(yielded) <= total
    /\ MultiCounter_check_complete(counter) <=> Len(yielded) = total
    /\ exhausted => Len(yielded) = total

\* the cards of the deck at the positions below upto that go to seat
\* (seats and positions counted from 0), in deck order
RECURSIVE RoundRobin(_, _, _, _)
RoundRobin(cards, seat, seats, upto) ==
    IF upto = 0 THEN <<>>
    ELSE IF (upto - 1) % seats = seat
    THEN Append(RoundRobin(cards, seat, seats, upto - 1), cards[upto])
    ELSE RoundRobin(cards, seat, seats, upto - 1)

Dealt == unwrap(dealing)

\* C34: in distribute_cards(N, deck) with 1 <= N <= 26 the card at deck
\* position i goes to player i mod N, in deck order; when the loop has
\* ended the 52 cards are each in exactly one hand, the hand sizes differ by
\* at most one, and the players are those distribute_cards returns; a
\* MultiCounter without simultaneous completion yields exactly as many
\* items as its greatest maximum, the i-th with components i mod maxes[k].
C34_DealsRoundRobin ==
    /\ ~counter.require_simultaneous_completion /\ counter.counter_maxes # <<>> =>
          /\ ItemsCountModulo
          /\ YieldsExactly(Greatest(counter.counter_maxes))
    /\ is_some(dealing) =>
          /\ Len(Dealt) = number_of_players
          /\ result = Ok(Unit)
          /\ \A seat \in 1..Len(Dealt) :
                Dealt[seat].hand =
                    RoundRobin(shuffled, seat - 1, number_of_players, Len(yielded))
          /\ exhausted =>
                /\ TotalCards(Dealt) = 52
                /\ \A card \in AllCards :
                      Cardinality({seat \in 1..Len(Dealt) :
                                      contains(Dealt[seat].hand, card)}) = 1
                /\ \A a, b \in 1..Len(Dealt) :
                      Len(Dealt[a].hand) - Len(Dealt[b].hand) \in {-1, 0, 1}
                /\ \A overflow_checks \in BOOLEAN :
                      distribute_cards(number_of_players, shuffled, overflow_checks)
                          = Ok(Dealt)

\* the deal to five players has ended: hands of eleven and of ten cards
C34_Witness ==
    /\ is_some(dealing)
    /\ exhausted
    /\ number_of_players = 5
    /\ Len(yielded) = 52
    /\ Len(Dealt[1].hand) = 11
    /\ Len(Dealt[5].hand) = 10
    /\ Dealt[3].hand[2] = shuffled[8]

\* C35: a MultiCounter with simultaneous completion and positive maxima
\* m_1..m_k yields exactly lcm(m_1..m_k) items, the i-th with components
\* i mod m_j; its next returns None exactly when, after at least one item,
\* every counter is at 0 again, each having wrapped.
C35_SimultaneousYieldsLcm ==
    counter.require_simultaneous_completion =>
        /\ ItemsCountModulo
        /\ YieldsExactly(Lcm(counter.counter_maxes))
        /\ MultiCounter_check_complete(counter) <=>
              /\ Len(yielded) > 0
              /\ \A k \in 1..Len(counter.counter_maxes) :
                    /\ counter.counter_values[k] = 0
                    /\ Len(yielded) % counter.counter_maxes[k] = 0
                    /\ Len(yielded) >= counter.counter_maxes[k]
                    /\ counter.counter_complete[k]

\* the test with the maxima [3, 5]: fifteen items, the last one [2, 4]
C35_Witness ==
    /\ counter.require_simultaneous_completion
    /\ counter.counter_maxes = <<3, 5>>
    /\ exhausted
    /\ Len(yielded) = 15
    /\ yielded[4] = <<0, 3>>
    /\ yielded[15] = <<2, 4>>

\* the last iteration got an error from assess_decision
LastFailed == is_some(last_decision) /\ is_err(unwrap(last_decision))

\* a step of main: none is made once an error was returned; the iteration
\* in which assess_decision returns an error returns it from main, with no
\* victory recorded in it and no state to go on with; main returns an
\* error only so, and then it has not reached the tally
C31_Step ==
    /\ pc # "error"
    /\ LastFailed' => /\ pc' = "error"
                      /\ victories' = victories
                      /\ branches' = branches
                      /\ current' = None
    /\ pc' = "error" => LastFailed'
    /\ pc' = "done" => ~LastFailed'

\* C31: when a classification returns an error the search stops there: no
\* state is classified after it, no victory is recorded after it and the
\* tally is not reached.
C31_ErrorStopsSearch == [][C31_Step]_vars

\* the first classification failed on a board with a pile set directly
C31_Witness ==
    /\ pc = "error"
    /\ LastFailed
    /\ unwrap(last_decision).err.kind = "GameBoardError"
    /\ initial.game_board \in FaultyBoards
    /\ seeds = 1
    /\ victories = <<>>

\* a stack as play leaves it: new, or both piles set, of its suit, the up
\* pile at the seven or above and the down pile at the seven or below
SoundStack(st) ==
    \/ Virgin(st)
    \/ /\ BothSet(st)
       /\ unwrap(st.up_card).suit = st.suit
       /\ unwrap(st.down_card).suit = st.suit
       /\ unwrap(st.up_card).number \in AboveSeven \cup {"Seven"}
       /\ unwrap(st.down_card).number \in BelowSeven \cup {"Seven"}

\* initial is a state of a game of 1 to 26 players
IsGame ==
    /\ Len(initial.players) \in 1..PLAYER_LIMIT
    /\ initial.player_turn < Len(initial.players)
    /\ \A st \in StacksOf(initial.game_board) : SoundStack(st)

\* C32: in a run from a state of a game of 1 to 26 players no error is
\* returned, neither by assess_decision nor by process_branches.
C32_NoErrorInSearch ==
    IsGame =>
        /\ pc # "error"
        /\ second.pc # "error"
        /\ ~LastFailed
        /\ \/ ~is_some(last_decision)
           \/ LastKind("Victory")
           \/ is_ok(branches_processed(unwrap(last_decision), loop_before.branches).ret)

\* the deal to 26 players, after all its cards were played
C32_Witness ==
    /\ IsGame
    /\ Len(initial.players) = PLAYER_LIMIT
    /\ TotalCards(initial.players) = 52
    /\ Len(path) = 52
    /\ LastKind("NoPlayableCards")

\* the locals of the first run, as the second run holds its own
FirstRun ==
    [branches |-> branches, victories |-> victories, current |-> current,
     pc |-> pc, classified |-> classified, last_decision |-> last_decision]

====
